---- MODULE Spec2Model ----
(***************************************************************************)
(* A model of the parameterization / instantiation core of praxis:         *)
(*   - the JaxContext stack and its shared-layer cache   (base_layer.py)   *)
(*   - instantiate_layer and BaseLayer.create_child      (base_layer.py)   *)
(*   - the copy-down of base hparams                     (base_layer.py)   *)
(*   - the summary dictionaries                          (base_layer.py)   *)
(*   - pax_fiddle.build with the DoNotBuild tag          (pax_fiddle.py)   *)
(***************************************************************************)
EXTENDS Integers, Sequences, FiniteSets, TLC

VARIABLES
  stack,      \* _JaxContextStack.stack of the thread: a sequence of frames
  scopes,     \* the thread's open `with frame:` blocks, innermost last
  raising,    \* TRUE while an exception propagates out of a with-body
  exitLog,    \* what the last __exit__ saw and left behind
  cache,      \* frame -> JaxContext._root_scope_to_shared_layers_map
  layers,     \* every BaseLayer object constructed so far, in order
  children,   \* the parent layer's _private_children: name -> layer
  parent,     \* the parent layer's own base fields
  cfg,        \* the config tree the caller is preparing
  last,       \* outcome of the last call of the layer API
  dag,        \* the config DAG handed to pax_fiddle.build
  raisers,    \* Buildable -> what its callable raises when invoked, or None
  icall,      \* the overrides passed to the last pax_fiddle.instantiate
  built,      \* what the last pax_fiddle.build constructed and returned
  sdict,      \* the current frame's summary_dict.dict: key -> tensor
  summaries,  \* a layer's SUMMARIES collection: key -> tensor
  ncalls,     \* the number of summary calls made so far
  slast,      \* outcome of the last summary call
  scall,      \* how the last summary call was made and how it ended
  auxloss,    \* a layer's AUX_LOSS collection: name -> AuxLossStruct
  auxlog,     \* name -> the (value, weight) pairs passed to add_aux_loss
  vstate,     \* a layer's variables: _weight_hparams, _theta, the names its
              \* flax scope has reserved, and its params and non_trainable
              \* collections
  vmode,      \* the traversal: is_initializing(), NON_TRAINABLE mutable
  vlast,      \* outcome of the last create_variable / update_var
  tstacks,    \* thread -> the stack _JaxContextStack holds for that thread
  tpushed,    \* thread -> the frames that thread has entered so far
  tlast,      \* the last __enter__ / __exit__ made by any thread
  box,        \* a BoxedParam: its value and its WeightHParams meta
  bhist,      \* the add_axis calls made on it so far, whether remove_axis
              \* has been called, and the parameters of the axes added and
              \* not yet removed
  blast,      \* the last add_axis / remove_axis call and what it returned
  pcall,      \* the last call of a function of the module, with its arguments
  pret,       \* what that call returned or raised
  jhparams,   \* the JaxContext.HParams objects that exist, in order of creation
  jdicts,     \* the dict objects that exist: summary dicts, shared-layer maps
              \* and mesh_axes_transpose dicts
  jframes,    \* the JaxContext objects constructed so far
  jstack,     \* _JaxContextStack.stack, of those JaxContext objects
  jwrites,    \* how many changes the caller has made to those objects
  jlast       \* the last call made on a JaxContext, or new_context

ctxVars == <<stack, scopes, raising, exitLog>>
layerVars == <<cache, layers, children, parent, cfg, last>>

buildVars == <<dag, built, raisers, icall>>
sumVars == <<sdict, summaries, ncalls, slast, scall>>
auxVars == <<auxloss, auxlog>>
varVars == <<vstate, vmode, vlast>>
thrVars == <<tstacks, tpushed, tlast>>
boxVars == <<box, bhist, blast>>
pureVars == <<pcall, pret>>
jaxVars == <<jhparams, jdicts, jframes, jstack, jwrites, jlast>>
lateVars == <<thrVars, boxVars, pureVars, jaxVars>>
moreVars == <<auxVars, varVars, lateVars>>
\* what the actions of one part of the program leave unchanged
notCtxVars == <<layerVars, buildVars, sumVars, moreVars>>
notLayerVars == <<ctxVars, buildVars, sumVars, moreVars>>
notBuildVars == <<ctxVars, layerVars, sumVars, moreVars>>
notSumVars == <<ctxVars, layerVars, buildVars, moreVars>>
notAuxVars == <<ctxVars, layerVars, buildVars, sumVars, varVars, lateVars>>
notVarVars == <<ctxVars, layerVars, buildVars, sumVars, auxVars, lateVars>>
notThrVars ==
  <<ctxVars, layerVars, buildVars, sumVars, auxVars, varVars, boxVars,
    pureVars, jaxVars>>
notBoxVars ==
  <<ctxVars, layerVars, buildVars, sumVars, auxVars, varVars, thrVars,
    pureVars, jaxVars>>
notPureVars ==
  <<ctxVars, layerVars, buildVars, sumVars, auxVars, varVars, thrVars,
    boxVars, jaxVars>>
notJaxVars ==
  <<ctxVars, layerVars, buildVars, sumVars, auxVars, varVars, thrVars,
    boxVars, pureVars>>

None == "None"

\* the parts of the program a specification leaves untouched
BuildIdle ==
  dag = None /\ built = None /\ raisers = None /\ icall = None
SumIdle ==
  /\ sdict = None /\ summaries = None /\ ncalls = 0 /\ slast = None
  /\ scall = None
AuxIdle == auxloss = None /\ auxlog = None
VarIdle == vstate = None /\ vmode = None /\ vlast = None
ThrIdle == tstacks = None /\ tpushed = None /\ tlast = None
BoxIdle == box = None /\ bhist = None /\ blast = None
PureIdle == pcall = None /\ pret = None
JaxIdle ==
  /\ jhparams = None /\ jdicts = None /\ jframes = None /\ jstack = None
  /\ jwrites = 0 /\ jlast = None
LateIdle == ThrIdle /\ BoxIdle /\ PureIdle /\ JaxIdle
MoreIdle == AuxIdle /\ VarIdle /\ LateIdle

(***************************************************************************)
(* Bounds of the model.                                                    *)
(***************************************************************************)
NumFrames == 2
MaxDepth == 3

Frames == 1..NumFrames

(***************************************************************************)
(* JaxContext: __enter__, __exit__, top, has_context.                      *)
(***************************************************************************)
Last(s) == s[Len(s)]
Front(s) == SubSeq(s, 1, Len(s) - 1)

\* JaxContext.__enter__: _JaxContextStack.stack.append(self)
JaxContextEnter(stk, self) == Append(stk, self)

\* A wrong __exit__ that removes the oldest frame instead of the newest.
JaxContextExitOldest(stk, self) ==
  IF stk = <<>> THEN [ok |-> FALSE, stack |-> stk]
  ELSE [ok |-> TRUE, stack |-> Tail(stk)]

\* JaxContext.__exit__: two assertions, then pop().  It returns None, so an
\* exception raised in the with-body keeps propagating.
JaxContextExit(stk, self) ==
  IF stk = <<>> THEN [ok |-> FALSE, stack |-> stk]
  ELSE IF Last(stk) # self THEN [ok |-> FALSE, stack |-> stk]
  ELSE [ok |-> TRUE, stack |-> Front(stk)]

\* JaxContext.top(): the innermost frame, or None
Top(stk) == IF stk # <<>> THEN Last(stk) ELSE 0

\* JaxContext.has_context()
HasContext(stk) == Len(stk) > 0

NoExit == [valid |-> FALSE, pre |-> <<>>, post |-> <<>>, raised |-> FALSE,
           ok |-> TRUE, frame |-> 0]

CtxInit ==
  /\ stack = <<>>
  /\ scopes = <<>>
  /\ raising = FALSE
  /\ exitLog = NoExit

\* `with frame:` is entered (only while control flows normally).
EnterContext(f, depth) ==
  /\ ~raising
  /\ Len(scopes) < depth
  /\ stack' = JaxContextEnter(stack, f)
  /\ scopes' = Append(scopes, [frame |-> f, pre |-> stack])
  /\ UNCHANGED <<raising, exitLog>>

\* An error is raised inside the innermost with-body.
RaiseError ==
  /\ ~raising
  /\ scopes # <<>>
  /\ raising' = TRUE
  /\ UNCHANGED <<stack, scopes, exitLog>>

\* A try/except in an enclosing with-body catches the propagating error.
CatchError ==
  /\ raising
  /\ scopes # <<>>
  /\ raising' = FALSE
  /\ UNCHANGED <<stack, scopes, exitLog>>

\* The innermost with-block is left, normally or by the propagating error:
\* the interpreter calls __exit__ of the frame the block entered.
ExitContext ==
  /\ scopes # <<>>
  /\ LET sc == Last(scopes)
         r == JaxContextExit(stack, sc.frame)
     IN /\ stack' = r.stack
        /\ scopes' = Front(scopes)
        /\ raising' = (raising \/ ~r.ok)
        /\ exitLog' = [valid |-> TRUE, pre |-> sc.pre, post |-> r.stack,
                       raised |-> raising, ok |-> r.ok, frame |-> sc.frame]

(***************************************************************************)
(* Layer configs.  A config tree handed to create_child has this shape:    *)
(*     C  (a BaseLayer config, the child)                                  *)
(*       sub = W   untagged; W is a plain, non-layer pax_fiddle.Config     *)
(*               body = S   untagged; S is a BaseLayer config              *)
(*       tpl = T   tagged DoNotBuild; T is a BaseLayer config (a template) *)
(*               sub = TS   untagged; TS is a BaseLayer config             *)
(***************************************************************************)
Nodes == {"C", "W", "S", "T", "TS"}
LayerNodes == {"C", "S", "T", "TS"}

\* value.__arguments__ with value.__argument_tags__, per node
TreeArgs(n) ==
  CASE n = "C" -> <<[arg |-> "sub", val |-> "W", DoNotBuild |-> FALSE],
                    [arg |-> "tpl", val |-> "T", DoNotBuild |-> TRUE]>>
    [] n = "W" -> <<[arg |-> "body", val |-> "S", DoNotBuild |-> FALSE]>>
    [] n = "T" -> <<[arg |-> "sub", val |-> "TS", DoNotBuild |-> FALSE]>>
    [] OTHER -> <<>>

\* isinstance(value, pax_fiddle.Config) and issubclass(get_callable, BaseLayer)
ValueIsBaseLayer(n) == n \in LayerNodes

\* _DEFAULT_XAVIER_INIT = 1.000001 and the tolerance 1e-7 of
\* is_default_param_init, both in units of 5e-8.
DefaultXavierInit == 20000020
DefaultInitTolerance == 2

Abs(x) == IF x < 0 THEN -x ELSE x

\* default_param_init(): WeightInit.Xavier(_DEFAULT_XAVIER_INIT)
DefaultParamInit == [method |-> "xavier", scale |-> DefaultXavierInit]

\* is_default_param_init(p)
IsDefaultParamInit(p) ==
  p.method = "xavier" /\ Abs(p.scale - DefaultXavierInit) < DefaultInitTolerance

InheritedFields == {"dtype", "fprop_dtype", "skip_lp_regularization",
                    "ici_mesh_shape", "dcn_mesh_shape", "mesh_axis_names",
                    "params_init"}

\* The dataclass defaults of BaseLayer's fields.
DefaultFields ==
  [dtype |-> "float32", fprop_dtype |-> None,
   params_init |-> DefaultParamInit, skip_lp_regularization |-> None,
   ici_mesh_shape |-> None, dcn_mesh_shape |-> None,
   mesh_axis_names |-> None, shared_weight_layer_id |-> None,
   name |-> None]

\* BaseLayer._hparam_fields: the init fields of the dataclass, except parent
HParamFields == (DOMAIN DefaultFields) \cup
  {"contiguous_submeshes", "weight_split_dims_mapping",
   "activation_split_dims_mapping"}

\* BaseLayer.__post_init__: an unset fprop_dtype becomes dtype
PostInit(f) ==
  IF f.fprop_dtype = None THEN [f EXCEPT !.fprop_dtype = f.dtype] ELSE f

\* A copy-down that overwrites whatever the target had set.
CopyBaseHParamsAlways(source, target) ==
  [target EXCEPT !.dtype = source.dtype,
                 !.fprop_dtype = source.fprop_dtype,
                 !.skip_lp_regularization = source.skip_lp_regularization,
                 !.ici_mesh_shape = source.ici_mesh_shape,
                 !.dcn_mesh_shape = source.dcn_mesh_shape,
                 !.mesh_axis_names = source.mesh_axis_names,
                 !.params_init = source.params_init]

\* BaseLayer._copy_base_hparams(source, target)
CopyBaseHParams(source, target) ==
  [target EXCEPT
     !.dtype = IF target.dtype = "float32" THEN source.dtype ELSE @,
     !.fprop_dtype = IF target.fprop_dtype = None
                     THEN source.fprop_dtype ELSE @,
     !.skip_lp_regularization =
        IF target.skip_lp_regularization = None
        THEN source.skip_lp_regularization ELSE @,
     !.ici_mesh_shape = IF target.ici_mesh_shape = None
                        THEN source.ici_mesh_shape ELSE @,
     !.dcn_mesh_shape = IF target.dcn_mesh_shape = None
                        THEN source.dcn_mesh_shape ELSE @,
     !.mesh_axis_names = IF target.mesh_axis_names = None
                         THEN source.mesh_axis_names ELSE @,
     !.params_init = IF IsDefaultParamInit(target.params_init)
                     THEN source.params_init ELSE @]

\* A traversal that also descends into the arguments tagged DoNotBuild.
SkipsArgIgnoringTags(a) == FALSE

\* visit(): `if pax_fiddle.DoNotBuild not in arg_tags: state.call(arg_val)`
SkipsArg(a) == a.DoNotBuild

\* BaseLayer._copy_base_params_to_fdl_config: visit(value) with
\* source_stack[-1] = source; the arguments of value are visited in order.
RECURSIVE Visit(_, _, _)
RECURSIVE VisitArgs(_, _, _, _)
Visit(value, source, tree) ==
  LET copied == IF ValueIsBaseLayer(value)
                THEN [tree EXCEPT ![value] = CopyBaseHParams(source, @)]
                ELSE tree
      top == IF ValueIsBaseLayer(value) THEN copied[value] ELSE source
  IN VisitArgs(TreeArgs(value), 1, top, copied)

VisitArgs(args, i, source, tree) ==
  IF i > Len(args) THEN tree
  ELSE VisitArgs(args, i + 1, source,
                 IF SkipsArg(args[i]) THEN tree
                 ELSE Visit(args[i].val, source, tree))

\* BaseLayer.copy_base_hparams(self, p): p is mutated in place
CopyBaseParamsToFdlConfig(source, target) == Visit("C", source, target)
(***************************************************************************)
(* The shared-layer cache of a JaxContext frame, instantiate_layer and     *)
(* BaseLayer.create_child.                                                 *)
(***************************************************************************)
MaxLayers == 2
MaxSet == 2
MaxNest == 1

\* the root scopes layers are created under; the parent layer's is the first
Scopes == {"root1", "root2"}
\* the frames the layer calls run under
SharedFrames == {1, 2}
ParentRoot == "root1"
\* shared_weight_layer_id values that are truthy in `if layer_p.shared_...:`
TruthyIds == {"s"}
SharedIdValues == {None, ""} \cup TruthyIds
ChildNames == {"a", "dtype"}
MaxChildren == 2
\* f'{name}_{next(uid)}'
NumberedName(name, uid) == name \o "_" \o ToString(uid)
\* the keys _private_children can get
ChildKeys ==
  ChildNames
    \cup {NumberedName(n, i) : n \in ChildNames, i \in 0..(MaxChildren - 1)}

CacheKeys == Scopes \X TruthyIds

\* collections.defaultdict(lambda: collections.defaultdict(lambda: None)):
\* a cell is <<>> for None and <<entry>> for a _SharedLayerCacheEntry
EmptyCache == [k \in CacheKeys |-> <<>>]

\* JaxContext.lookup_shared_layer(root_scope, shared_layer_id)
LookupSharedLayerRes(map, root_scope, shared_layer_id) ==
  map[<<root_scope, shared_layer_id>>]

\* A _WrapperLayer is identified with the layer it wraps: wrapper.cld
WrapperCld(wrapper) == wrapper

\* A set_shared_layer without the assertion: it overwrites the entry.
SetSharedLayerOverwrite(map, root_scope, shared_layer_id, wrapper, hp) ==
  [ok |-> TRUE,
   map |-> [map EXCEPT ![<<root_scope, shared_layer_id>>] =
              <<[layer |-> WrapperCld(wrapper), hparams |-> hp,
                 wrapper |-> wrapper]>>]]

\* JaxContext.set_shared_layer(root_scope, shared_layer_id, wrapper, hparams)
SetSharedLayerRes(map, root_scope, shared_layer_id, wrapper, hp) ==
  LET existing == LookupSharedLayerRes(map, root_scope, shared_layer_id)
  IN IF existing # <<>> THEN [ok |-> FALSE, map |-> map]
     ELSE [ok |-> TRUE,
           map |-> [map EXCEPT ![<<root_scope, shared_layer_id>>] =
                      <<[layer |-> WrapperCld(wrapper), hparams |-> hp,
                         wrapper |-> wrapper]>>]]

\* A compatibility test that accepts any two configs.
CompatibleHParamsAlways(hparams1, hparams2) == TRUE

\* compatible_hparams(hparams1, hparams2): equal after p.name = ''
CompatibleHParams(hparams1, hparams2) ==
  [hparams1 EXCEPT !["C"].name = ""] = [hparams2 EXCEPT !["C"].name = ""]

\* layer_p.Instantiate(): the layer object built from layer_p
NewLayer(layer_p, scope, wrapperName, ctx) ==
  [name |-> layer_p["C"].name,
   hp |-> layer_p,
   fprop_dtype |-> PostInit(layer_p["C"]).fprop_dtype,
   wrapper |-> wrapperName,   \* the name of its _WrapperLayer, if it has one
   ctx |-> ctx,               \* the frame its wrapper was registered in
   root |-> scope]

\* An instantiate_layer that never consults the cache before building.
LookupForInstantiateNever(ch, ctx, scope, sid) == <<>>

\* instantiate_layer: pre_created = jax_context.lookup_shared_layer(...)
LookupForInstantiate(ch, ctx, scope, sid) ==
  LookupSharedLayerRes(ch[ctx], scope, sid)

\* instantiate_layer(layer_p, scope) on the context stack stk, the caches ch
\* and the heap of layers ls
InstantiateLayerRes(layer_p, scope, stk, ch, ls) ==
  LET sid == layer_p["C"].shared_weight_layer_id
      fail(e) == [ok |-> FALSE, err |-> e, layer |-> 0, found |-> FALSE,
                  cache |-> ch, layers |-> ls]
  IN IF sid \in {None, ""}
     THEN \* simply create the child
          [ok |-> TRUE, err |-> None, layer |-> Len(ls) + 1, found |-> FALSE,
           cache |-> ch, layers |-> Append(ls, NewLayer(layer_p, scope, None, 0))]
     ELSE IF Top(stk) = 0
     THEN fail("AssertionError")      \* cur_jax_context()
     ELSE LET ctx == Top(stk)
              pre_created == LookupForInstantiate(ch, ctx, scope, sid)
          IN IF pre_created # <<>>
             THEN IF CompatibleHParams(pre_created[1].hparams, layer_p)
                  THEN [ok |-> TRUE, err |-> None,
                        layer |-> pre_created[1].layer, found |-> TRUE,
                        cache |-> ch, layers |-> ls]
                  ELSE [fail("AssertionError") EXCEPT !.found = TRUE]
             ELSE IF sid \in HParamFields \cup {"cld_tpl"}
             THEN fail("AttributeError")  \* the wrapper's create_child
             ELSE LET wrapped_p ==
                        [layer_p EXCEPT !["C"].shared_weight_layer_id = None]
                      \* _WrapperLayer.setup: create_child(self.name, cld_tpl)
                      p == [CopyBaseParamsToFdlConfig(
                              PostInit(DefaultFields), wrapped_p)
                            EXCEPT !["C"].name = sid]
                      wrapper == Len(ls) + 1
                      reg == SetSharedLayerRes(ch[ctx], scope, sid, wrapper,
                                               layer_p)
                  IN IF reg.ok
                     THEN [ok |-> TRUE, err |-> None, layer |-> wrapper,
                           found |-> FALSE,
                           cache |-> [ch EXCEPT ![ctx] = reg.map],
                           layers |-> Append(ls, NewLayer(p, scope, sid, ctx))]
                     ELSE [fail("AssertionError") EXCEPT
                             !.layers = Append(ls, NewLayer(p, scope, sid, ctx))]

\* `if name is self._private_children`: the identity of a str is compared
\* with that of the dict, which are never the same object.
NameIsPrivateChildren(name, ch) == FALSE

\* BaseLayer._check_child_layername_conflict(name)
ChildLayernameConflict(name) == name \in HParamFields

NoCall == [op |-> None, name |-> None, ok |-> TRUE, err |-> None, layer |-> 0,
           found |-> FALSE, frame |-> 0, scope |-> None]

Call(op, name, r, f, s) ==
  [op |-> op, name |-> name, ok |-> r.ok, err |-> r.err, layer |-> r.layer,
   found |-> r.found, frame |-> f, scope |-> s]

\* The three parent layers of the model (built layers: see PostInit).
ParentLayers ==
  { PostInit(DefaultFields),
    PostInit([DefaultFields EXCEPT
       !.dtype = "bfloat16", !.skip_lp_regularization = "True",
       !.ici_mesh_shape = "[1,2]", !.dcn_mesh_shape = "[2,1]",
       !.mesh_axis_names = "[x,y]",
       !.params_init = [method |-> "gaussian", scale |-> DefaultXavierInit]]),
    PostInit([DefaultFields EXCEPT
       !.dtype = "bfloat16", !.fprop_dtype = "float32",
       !.skip_lp_regularization = "False",
       !.ici_mesh_shape = "[4,1]", !.mesh_axis_names = "[x,y]",
       !.params_init = [method |-> "xavier",
                        scale |-> DefaultXavierInit + DefaultInitTolerance]]) }

FieldValues(f) ==
  CASE f = "dtype" -> {"float32", "bfloat16"}
    [] f = "fprop_dtype" -> {None, "float32", "bfloat16"}
    [] f = "skip_lp_regularization" -> {None, "True", "False"}
    [] f = "ici_mesh_shape" -> {None, "[1,2]"}
    [] f = "dcn_mesh_shape" -> {None, "[2,1]"}
    [] f = "mesh_axis_names" -> {None, "[x,y]"}
    [] f = "params_init" ->
         {DefaultParamInit,
          [method |-> "xavier", scale |-> DefaultXavierInit + 1],
          [method |-> "uniform", scale |-> DefaultXavierInit]}
    [] f = "shared_weight_layer_id" -> SharedIdValues

DefaultCfg == [n \in LayerNodes |-> DefaultFields]

LayerInit(parents, cfgs) ==
  /\ cache = [f \in Frames |-> EmptyCache]
  /\ layers = <<>>
  /\ children = [n \in ChildKeys |-> 0]
  /\ parent \in parents
  /\ cfg \in cfgs
  /\ last = NoCall

\* cfg.set(field=value) on one config of the tree the caller is preparing
SetField(n, f, v) ==
  /\ cfg[n][f] # v
  /\ cfg' = [cfg EXCEPT ![n][f] = v]
  /\ UNCHANGED <<cache, layers, children, parent, last>>

\* A direct jax_context.lookup_shared_layer(root_scope, id) on frame f
LookupSharedLayer(f, s, id) ==
  /\ LET e == LookupSharedLayerRes(cache[f], s, id)
     IN last' = Call("lookup_shared_layer", None,
                     [ok |-> TRUE, err |-> None, found |-> e # <<>>,
                      layer |-> IF e = <<>> THEN 0 ELSE e[1].layer], f, s)
  /\ UNCHANGED <<cache, layers, children, parent, cfg>>

\* A direct jax_context.set_shared_layer(root_scope, id, wrapper, cfg)
SetSharedLayer(f, s, id, wrapper) ==
  /\ wrapper \in 1..Len(layers)
  /\ layers[wrapper].wrapper # None
  /\ LET r == SetSharedLayerRes(cache[f], s, id, wrapper, cfg)
     IN /\ cache' = [cache EXCEPT ![f] = r.map]
        /\ last' = Call("set_shared_layer", None,
                        [ok |-> r.ok,
                         err |-> IF r.ok THEN None ELSE "AssertionError",
                         found |-> cache[f][<<s, id>>] # <<>>,
                         layer |-> WrapperCld(wrapper)], f, s)
  /\ UNCHANGED <<layers, children, parent, cfg>>

\* A direct instantiate_layer(cfg, scope)
InstantiateLayer(s) ==
  LET r == InstantiateLayerRes(cfg, s, stack, cache, layers)
  IN /\ Len(r.layers) <= MaxLayers
     /\ cache' = r.cache
     /\ layers' = r.layers
     /\ last' = Call("instantiate_layer", None, r, Top(stack), s)
     /\ UNCHANGED <<children, parent, cfg>>

\* A clone that is the config it was asked to copy.
ConfigCloneAlias(params) == [p |-> params, same |-> TRUE]

\* params.clone(): copy.deepcopy(params)
ConfigClone(params) == [p |-> params, same |-> FALSE]

\* self._create_child(name, params), params being the caller's config
\* st.cfg; st also holds the caches, the layers and _private_children
PrivateCreateChild(name, st) ==
  IF NameIsPrivateChildren(name, st.children)
  THEN [ok |-> FALSE, err |-> "ValueError", layer |-> 0, found |-> FALSE,
        st |-> st]
  ELSE LET c == ConfigClone(st.cfg)
           p == [CopyBaseParamsToFdlConfig(parent, c.p)
                 EXCEPT !["C"].name = name]
           r == InstantiateLayerRes(p, ParentRoot, stack, st.cache,
                                    st.layers)
       IN [ok |-> r.ok, err |-> r.err, layer |-> r.layer, found |-> r.found,
           st |-> [cache |-> r.cache, layers |-> r.layers,
                   children |-> IF r.ok
                                THEN [st.children EXCEPT ![name] = r.layer]
                                ELSE st.children,
                   cfg |-> IF c.same THEN p ELSE st.cfg]]

\* what the layer API reads and writes besides the parent's own fields
LayerState ==
  [cache |-> cache, layers |-> layers, children |-> children, cfg |-> cfg]

\* self.create_child(name, cfg) on the parent layer
CreateChild(name) ==
  LET failed(e) == [ok |-> FALSE, err |-> e, layer |-> 0, found |-> FALSE]
  IN IF ChildLayernameConflict(name)
     THEN /\ last' = Call("create_child", name, failed("AttributeError"),
                          Top(stack), ParentRoot)
          /\ UNCHANGED <<cache, layers, children, parent, cfg>>
     ELSE LET r == PrivateCreateChild(name, LayerState)
          IN /\ Len(r.st.layers) <= MaxLayers
             /\ cache' = r.st.cache
             /\ layers' = r.st.layers
             /\ children' = r.st.children
             /\ cfg' = r.st.cfg
             /\ last' = Call("create_child", name, r, Top(stack), ParentRoot)
             /\ UNCHANGED parent

\* the loop of create_children: _create_child for params[uid], ...
RECURSIVE CreateChildrenFrom(_, _, _, _, _)
CreateChildrenFrom(name, uid, n, made, st) ==
  IF uid = n
  THEN [ok |-> TRUE, err |-> None, made |-> made, st |-> st]
  ELSE LET r == PrivateCreateChild(NumberedName(name, uid), st)
       IN IF r.ok
          THEN CreateChildrenFrom(name, uid + 1, n, Append(made, r.layer),
                                  r.st)
          ELSE [ok |-> FALSE, err |-> r.err, made |-> made, st |-> r.st]

\* self.create_children(name, [cfg] * n) on the parent layer
CreateChildren(name, n) ==
  LET call(r) == [op |-> "create_children", name |-> name, ok |-> r.ok,
                  err |-> r.err, layer |-> 0, found |-> FALSE,
                  frame |-> Top(stack), scope |-> ParentRoot,
                  made |-> r.made, n |-> n]
  IN IF ChildLayernameConflict(name)
     THEN /\ last' = call([ok |-> FALSE, err |-> "AttributeError",
                           made |-> <<>>])
          /\ UNCHANGED <<cache, layers, children, parent, cfg>>
     ELSE LET r == CreateChildrenFrom(name, 0, n, <<>>, LayerState)
          IN /\ Len(r.st.layers) <= MaxLayers
             /\ cache' = r.st.cache
             /\ layers' = r.st.layers
             /\ children' = r.st.children
             /\ cfg' = r.st.cfg
             /\ last' = call(r)
             /\ UNCHANGED parent
LayerIdle ==
  /\ cache = None /\ layers = <<>> /\ children = None /\ parent = None
  /\ cfg = None /\ last = None

vars == <<stack, scopes, raising, exitLog, cache, layers, children, parent,
          cfg, last, dag, built, raisers, icall,
          sdict, summaries, ncalls, slast, scall,
          moreVars>>

(***************************************************************************)
(* SpecCtx: scoped entries and exits of JaxContext frames in one thread.   *)
(***************************************************************************)
CtxNext ==
  \/ \E f \in Frames : EnterContext(f, MaxDepth) /\ UNCHANGED notCtxVars
  \/ RaiseError /\ UNCHANGED notCtxVars
  \/ CatchError /\ UNCHANGED notCtxVars
  \/ ExitContext /\ UNCHANGED notCtxVars

InitCtx == CtxInit /\ LayerIdle /\ BuildIdle /\ SumIdle /\ MoreIdle

SpecCtx == InitCtx /\ [][CtxNext]_vars

(***************************************************************************)
(* Spec: shared layers.  Frames are entered and left, the caller sets the  *)
(* shared_weight_layer_id and the dtype of its config, and layers are      *)
(* instantiated directly and as children of the parent layer.              *)
(***************************************************************************)
Init ==
  /\ CtxInit /\ LayerInit({PostInit(DefaultFields)}, {DefaultCfg})
  /\ BuildIdle /\ SumIdle /\ MoreIdle

Next ==
  \/ \E f \in SharedFrames : EnterContext(f, MaxNest) /\ UNCHANGED notCtxVars
  \/ ExitContext /\ UNCHANGED notCtxVars
  \/ \E v \in {None} \cup TruthyIds :
       SetField("C", "shared_weight_layer_id", v) /\ UNCHANGED notLayerVars
  \/ \E s \in Scopes : InstantiateLayer(s) /\ UNCHANGED notLayerVars
  \/ \E name \in ChildNames : CreateChild(name) /\ UNCHANGED notLayerVars

Spec == Init /\ [][Next]_vars

(***************************************************************************)
(* SpecCache: direct lookups and registrations on the frames' caches; the  *)
(* wrappers registered are those instantiate_layer has built.              *)
(***************************************************************************)
InitCache ==
  /\ stack = <<1>> /\ scopes = <<[frame |-> 1, pre |-> <<>>]>>
  /\ raising = FALSE /\ exitLog = NoExit
  /\ LayerInit({PostInit(DefaultFields)},
               {[DefaultCfg EXCEPT !["C"].shared_weight_layer_id = "s"]})
  /\ BuildIdle /\ SumIdle /\ MoreIdle

NextCache ==
  \/ \E v \in FieldValues("dtype") :
       SetField("C", "dtype", v) /\ UNCHANGED notLayerVars
  \/ \E f \in Frames, s \in Scopes, id \in TruthyIds :
       LookupSharedLayer(f, s, id) /\ UNCHANGED notLayerVars
  \/ \E f \in Frames, s \in Scopes, id \in TruthyIds, w \in 1..MaxLayers :
       SetSharedLayer(f, s, id, w) /\ UNCHANGED notLayerVars
  \/ \E s \in Scopes : InstantiateLayer(s) /\ UNCHANGED notLayerVars

SpecCache == InitCache /\ [][NextCache]_vars

(***************************************************************************)
(* SpecCopy: the caller prepares a config tree, field by field, and then   *)
(* the parent layer creates children from it.  No config carries a         *)
(* shared_weight_layer_id here.                                            *)
(***************************************************************************)
\* the fields of the tree the caller has moved off their dataclass defaults
SetFields(tree) ==
  {nf \in LayerNodes \X InheritedFields : tree[nf[1]][nf[2]] # DefaultFields[nf[2]]}

Configure(n, f, v) ==
  /\ layers = <<>>
  /\ Cardinality(SetFields([cfg EXCEPT ![n][f] = v])) <= MaxSet
  /\ SetField(n, f, v)

InitCopy ==
  /\ CtxInit /\ LayerInit(ParentLayers, {DefaultCfg})
  /\ BuildIdle /\ SumIdle /\ MoreIdle

NextCopy ==
  \/ \E n \in LayerNodes, f \in InheritedFields : \E v \in FieldValues(f) :
       Configure(n, f, v) /\ UNCHANGED notLayerVars
  \/ CreateChild("a") /\ UNCHANGED notLayerVars

SpecCopy == InitCopy /\ [][NextCopy]_vars

(***************************************************************************)
(* SpecCompat: inside one frame, the caller changes the dtype and the name *)
(* of a config that carries a shared_weight_layer_id and instantiates it.  *)
(***************************************************************************)
LayerNames == {None, "a"}

InitCompat == InitCache

NextCompat ==
  \/ \E v \in FieldValues("dtype") :
       SetField("C", "dtype", v) /\ UNCHANGED notLayerVars
  \/ \E v \in LayerNames : SetField("C", "name", v) /\ UNCHANGED notLayerVars
  \/ \E s \in Scopes : InstantiateLayer(s) /\ UNCHANGED notLayerVars

SpecCompat == InitCompat /\ [][NextCompat]_vars

(***************************************************************************)
(* SpecCtxDirect: __enter__ and __exit__ called directly, in any order and *)
(* on any frame, rather than through properly nested with-blocks.          *)
(***************************************************************************)
\* frame.__enter__()
DirectEnter(f) ==
  /\ Len(stack) < MaxDepth
  /\ stack' = JaxContextEnter(stack, f)
  /\ UNCHANGED <<scopes, raising, exitLog>>

\* An exit that pops the stack without looking at it.
DirectExitUnchecked(f) ==
  /\ stack' = Front(stack)
  /\ exitLog' = [valid |-> TRUE, pre |-> stack, post |-> Front(stack),
                 raised |-> FALSE, ok |-> TRUE, frame |-> f]
  /\ UNCHANGED <<scopes, raising>>

\* frame.__exit__(None, None, None)
DirectExit(f) ==
  LET r == JaxContextExit(stack, f)
  IN /\ stack' = r.stack
     /\ exitLog' = [valid |-> TRUE, pre |-> stack, post |-> r.stack,
                    raised |-> FALSE, ok |-> r.ok, frame |-> f]
     /\ UNCHANGED <<scopes, raising>>

InitCtxDirect == CtxInit /\ LayerIdle /\ BuildIdle /\ SumIdle /\ MoreIdle

NextCtxDirect ==
  \/ \E f \in Frames : DirectEnter(f) /\ UNCHANGED notCtxVars
  \/ \E f \in Frames : DirectExit(f) /\ UNCHANGED notCtxVars

SpecCtxDirect == InitCtxDirect /\ [][NextCtxDirect]_vars

(***************************************************************************)
(* pax_fiddle.build.  A config DAG has the Buildables 1..NumNodes; node 1  *)
(* is the one handed to build.  An argument holds a plain value, a         *)
(* Buildable with a larger number, or a list holding such a Buildable, and *)
(* may carry the DoNotBuild tag.  Built objects are numbered in the order  *)
(* their callables are invoked.  A callable returns, or raises an error    *)
(* of the kind `raisers` gives for it.                                     *)
(***************************************************************************)
NumNodes == 4
BuildNodes == 1..NumNodes
\* the Buildable passed to build()
RootNode == 1
\* value.__arguments__ keys, in order: of the root, and of a nested Buildable
RootArgNames == <<"a", "b">>
NestedArgNames == <<"a">>
ArgNames(n) == IF n = RootNode THEN RootArgNames ELSE NestedArgNames

Leaf == [kind |-> "leaf", ref |-> 0]
Cfg(n) == [kind |-> "cfg", ref |-> n]          \* the Buildable n itself
ListOfCfg(n) == [kind |-> "list", ref |-> n]   \* [Buildable n]
Obj(k) == [kind |-> "obj", ref |-> k]          \* the k-th built object
ListOfObj(k) == [kind |-> "listobj", ref |-> k]

\* what an argument of node n may hold
ArgChoices(n) ==
  {[val |-> Leaf, DoNotBuild |-> FALSE]}
    \cup {[val |-> Cfg(m), DoNotBuild |-> t] :
            m \in (n + 1)..NumNodes, t \in BOOLEAN}
    \cup {[val |-> ListOfCfg(m), DoNotBuild |-> FALSE] : m \in (n + 1)..NumNodes}

\* the DAGs over the Buildables 1..n, as sequences of argument lists
RECURSIVE DagsUpTo(_)
DagsUpTo(n) ==
  IF n = 0 THEN {<<>>}
  ELSE {Append(g, args) : g \in DagsUpTo(n - 1),
                          args \in [1..Len(ArgNames(n)) -> ArgChoices(n)]}

Dags == DagsUpTo(NumNodes)

\* what a callable does when it is invoked: it returns (None) or raises
RaiseKinds == {None, "ValueError", "TaggedValueNotFilledError"}
NoRaisers == [n \in BuildNodes |-> None]

\* value.__fn_or_cls__: a copy of the root (see Instantiate) has its callable
CallableOf(n) == IF n > NumNodes THEN RootNode ELSE n

\* what value.__build__ raises
CallableRaises(n) == raisers[CallableOf(n)]

\* build returned nothing
NoResult == [kind |-> "none", ref |-> 0]

\* the traversal state: the objects built so far, the memo of state.call,
\* and the exception that is propagating, if any
NewTraversal(g) ==
  [objs |-> <<>>, memo |-> [n \in 1..Len(g) |-> 0], err |-> <<>>]

\* daglish.path_str of one path element
AttrPath(key) == "." \o key
IndexPath(i) == "[" \o ToString(i) \o "]"

\* An except clause that lets no error through unwrapped.
ReraisedNever(kind) == FALSE

\* `except tagging.TaggedValueNotFilledError: raise`
Reraised(kind) == kind = "TaggedValueNotFilledError"

\* A build that builds the tagged arguments like the others.
DoNotBuildNever(a) == FALSE

\* `DoNotBuild in value.__argument_tags__.get(key, ())`
DoNotBuildTagged(a) == a.DoNotBuild

\* A traversal without the memo.
MemoLookupNever(memo, n) == 0

\* MemoizedTraversal: the result memoized for the Buildable n, 0 if none
MemoLookup(memo, n) == memo[n]

RECURSIVE StateCall(_, _, _, _)
RECURSIVE InnerBuild(_, _, _, _)
RECURSIVE BuildArguments(_, _, _, _, _, _)

\* state.call(sub_value, ...): _build(sub_value) unless memoized; `path` is
\* state.current_path during the call
StateCall(g, v, st, path) ==
  CASE v.kind = "cfg" ->
         IF MemoLookup(st.memo, v.ref) # 0
         THEN [res |-> Obj(MemoLookup(st.memo, v.ref)), st |-> st]
         ELSE LET r == InnerBuild(g, v.ref, st, path)
              IN IF r.st.err # <<>> THEN r
                 ELSE [res |-> r.res,
                       st |-> [r.st EXCEPT !.memo[v.ref] = r.res.ref]]
    [] v.kind = "list" ->        \* state.map_children(value)
         LET r == StateCall(g, Cfg(v.ref), st, path \o IndexPath(0))
         IN IF r.st.err # <<>> THEN r
            ELSE [res |-> ListOfObj(r.res.ref), st |-> r.st]
    [] OTHER -> [res |-> v, st |-> st]

\* the loop of _build over value.__arguments__.items(); an exception raised
\* by state.call leaves the loop and _build
BuildArguments(g, n, i, arguments, st, path) ==
  IF i > Len(g[n]) THEN [arguments |-> arguments, st |-> st]
  ELSE IF DoNotBuildTagged(g[n][i])
  THEN BuildArguments(g, n, i + 1, Append(arguments, g[n][i].val), st, path)
  ELSE LET r == StateCall(g, g[n][i].val, st,
                          path \o AttrPath(ArgNames(CallableOf(n))[i]))
       IN IF r.st.err # <<>> THEN [arguments |-> arguments, st |-> r.st]
          ELSE BuildArguments(g, n, i + 1, Append(arguments, r.res), r.st,
                              path)

\* _build(value, state) for a Buildable: value.__build__(**arguments) inside
\* the try statement
InnerBuild(g, n, st, path) ==
  LET a == BuildArguments(g, n, 1, <<>>, st, path)
      k == Len(a.st.objs) + 1
      e == [kind |-> CallableRaises(n), by |-> CallableOf(n)]
  IN IF a.st.err # <<>> THEN [res |-> NoResult, st |-> a.st]
     ELSE IF e.kind = None
     THEN [res |-> Obj(k),
           st |-> [a.st EXCEPT
                     !.objs = Append(@, [callable |-> CallableOf(n),
                                         args |-> a.arguments])]]
     ELSE IF Reraised(e.kind)
     THEN [res |-> NoResult,
           st |-> [a.st EXCEPT
                     !.err = <<[type |-> e.kind, buildable |-> 0,
                                path |-> None, original |-> e]>>]]
     ELSE [res |-> NoResult,
           st |-> [a.st EXCEPT
                     !.err = <<[type |-> "BuildError", buildable |-> n,
                                path |-> "<root>" \o path,
                                original |-> e]>>]]

\* build(buildable)
BuildRes(g, buildable) ==
  LET r == InnerBuild(g, buildable, NewTraversal(g), "")
  IN [root |-> buildable, result |-> r.res, objs |-> r.st.objs,
      err |-> r.st.err]

Build ==
  /\ built' = <<BuildRes(dag, RootNode)>>
  /\ UNCHANGED <<dag, raisers, icall>>

(***************************************************************************)
(* SpecBuild: one config DAG, built.                                       *)
(***************************************************************************)
InitBuild ==
  /\ CtxInit /\ LayerIdle /\ SumIdle /\ MoreIdle
  /\ dag \in Dags
  /\ raisers = NoRaisers
  /\ built = <<>>
  /\ icall = <<>>

NextBuild == Build /\ UNCHANGED notBuildVars

SpecBuild == InitBuild /\ [][NextBuild]_vars


(***************************************************************************)
(* SpecBuildErr: one config DAG, built, where one callable may raise.      *)
(***************************************************************************)
\* at most one of the callables raises
RaiserChoices ==
  {NoRaisers} \cup
  {[NoRaisers EXCEPT ![n] = k] : n \in BuildNodes, k \in RaiseKinds \ {None}}

InitBuildErr ==
  /\ CtxInit /\ LayerIdle /\ SumIdle /\ MoreIdle
  /\ dag \in Dags
  /\ raisers \in RaiserChoices
  /\ built = <<>>
  /\ icall = <<>>

SpecBuildErr == InitBuildErr /\ [][NextBuild]_vars

(***************************************************************************)
(* pax_fiddle.instantiate(config, **kwargs).  The caller's Buildables are  *)
(* the objects 1..NumNodes of a heap; copy.copy adds one object to it.     *)
(***************************************************************************)
\* a plain value other than the one the configs hold
OtherLeaf == [kind |-> "leaf", ref |-> 1]

\* what a keyword argument of instantiate may hold
OverrideValues == {OtherLeaf, Cfg(RootNode + 1)}

\* **kwargs: argument position of the root -> value
OverrideChoices ==
  UNION {[S -> OverrideValues] : S \in SUBSET (1..Len(RootArgNames))}

\* An assignment in place of a copy: `config = config`.
CopyAlias(heap, n) == [heap |-> heap, obj |-> n]

\* copy.copy(config): a new Buildable with the same callable, holding the
\* same argument values and tags
CopyCopy(heap, n) == [heap |-> Append(heap, heap[n]), obj |-> Len(heap) + 1]

\* fdl.assign(buildable, **kwargs): setattr for every keyword
Assign(heap, n, kwargs) ==
  [heap EXCEPT ![n] =
     [i \in 1..Len(heap[n]) |->
        IF i \in DOMAIN kwargs THEN [heap[n][i] EXCEPT !.val = kwargs[i]]
        ELSE heap[n][i]]]

\* instantiate(config, **kwargs)
InstantiateRes(heap, config, kwargs) ==
  IF DOMAIN kwargs # {}
  THEN LET c == CopyCopy(heap, config)
           h == Assign(c.heap, c.obj, kwargs)
       IN [heap |-> h, built |-> BuildRes(h, c.obj)]
  ELSE [heap |-> heap, built |-> BuildRes(heap, config)]

Instantiate(kwargs) ==
  LET r == InstantiateRes(dag, RootNode, kwargs)
  IN /\ dag' = SubSeq(r.heap, 1, NumNodes)
     /\ built' = <<r.built>>
     /\ icall' = <<kwargs>>
     /\ UNCHANGED raisers

(***************************************************************************)
(* SpecInstantiate: one config DAG, instantiated once, with or without     *)
(* overrides.                                                              *)
(***************************************************************************)
InitInstantiate == InitBuild

NextInstantiate ==
  /\ icall = <<>>
  /\ \E kwargs \in OverrideChoices :
       Instantiate(kwargs) /\ UNCHANGED notBuildVars

SpecInstantiate == InitInstantiate /\ [][NextInstantiate]_vars

(***************************************************************************)
(* Summaries: the summary dictionary of a JaxContext frame, filled by      *)
(* add_global_summary, and the SUMMARIES collection of a layer, filled by  *)
(* BaseLayer.add_summary.  A tensor is its value (the number of the call   *)
(* that passed it) and its ndim.                                           *)
(***************************************************************************)
MaxCalls == 3

SummaryNames == {"loss", "loss1"}
SummaryTypes == {"SCALAR", "AGGREGATE_SCALAR", "IMAGE", "AGGREGATE_IMAGE",
                 "AUDIO"}
\* the ndims of the tensors passed with each summary type
TensorNdims(summary_type) ==
  CASE summary_type \in {"SCALAR", "AGGREGATE_SCALAR"} -> {0}
    [] summary_type = "IMAGE" -> {2, 3}
    [] summary_type = "AGGREGATE_IMAGE" -> {3}
    [] summary_type = "AUDIO" -> {2}

\* JaxContext.HParams.summary_verbosity
SummaryVerbosity == 3
Verbosities == {SummaryVerbosity - 1, SummaryVerbosity, SummaryVerbosity + 1}

\* SummaryType.name.lower()
NameLower(summary_type) ==
  CASE summary_type = "SCALAR" -> "scalar"
    [] summary_type = "AGGREGATE_SCALAR" -> "aggregate_scalar"
    [] summary_type = "IMAGE" -> "image"
    [] summary_type = "AGGREGATE_IMAGE" -> "aggregate_image"
    [] summary_type = "AUDIO" -> "audio"

\* get_summary_base_type(summary_type)
GetSummaryBaseType(summary_type) ==
  IF summary_type = "AGGREGATE_SCALAR" THEN "SCALAR"
  ELSE IF summary_type = "AGGREGATE_IMAGE" THEN "IMAGE"
  ELSE summary_type

\* get_summary_type_suffix(summary_type)
GetSummaryTypeSuffix(summary_type) ==
  "_" \o NameLower(GetSummaryBaseType(summary_type))

\* jnp.expand_dims(tensor, 0)
ExpandDims(tensor) == [tensor EXCEPT !.ndim = @ + 1]

\* summary_base_name + str(next_iter) + summary_suffix; no number at first
FullName(base, next_iter, suffix) ==
  IF next_iter = 0 THEN base \o suffix
  ELSE base \o ToString(next_iter) \o suffix

\* A scan that tests the name without its type suffix.
RECURSIVE ScanFullNameUnsuffixed(_, _, _, _)
ScanFullNameUnsuffixed(keys, base, suffix, next_iter) ==
  IF FullName(base, next_iter, "") \in keys
  THEN ScanFullNameUnsuffixed(keys, base, suffix, next_iter + 1)
  ELSE FullName(base, next_iter, suffix)

\* _SummaryDict.add_summary: `while full_name in self.dict`
RECURSIVE ScanFullName(_, _, _, _)
ScanFullName(keys, base, suffix, next_iter) ==
  IF FullName(base, next_iter, suffix) \in keys
  THEN ScanFullName(keys, base, suffix, next_iter + 1)
  ELSE FullName(base, next_iter, suffix)

\* _SummaryDict.add_summary(name, tensor, summary_type) on the dict d
SummaryDictAddSummary(d, name, tensor, summary_type) ==
  LET full_name == ScanFullName(DOMAIN d, name,
                                GetSummaryTypeSuffix(summary_type), 0)
      isImage == summary_type \in {"IMAGE", "AGGREGATE_IMAGE"}
      t == IF (isImage /\ tensor.ndim = 3)
              \/ (summary_type = "AUDIO" /\ tensor.ndim = 2)
           THEN ExpandDims(tensor) ELSE tensor
  IN IF isImage /\ t.ndim # 4
     THEN [ok |-> FALSE, dict |-> d]         \* assert tensor.ndim == 4
     ELSE [ok |-> TRUE, dict |-> (full_name :> t) @@ d]

\* BaseLayer.add_summary: `while self.has_variable(SUMMARIES, full_name)`,
\* the type suffix is appended after the loop
RECURSIVE ScanVariableName(_, _, _)
ScanVariableName(keys, summary_name, next_iter) ==
  IF FullName(summary_name, next_iter, "") \in keys
  THEN ScanVariableName(keys, summary_name, next_iter + 1)
  ELSE FullName(summary_name, next_iter, "")

\* self.sow(SUMMARIES, full_name, tensor, reduce_fn=lambda x, y: y)
Sow(col, full_name, tensor) == (full_name :> tensor) @@ col

\* BaseLayer.add_summary(name, tensor, summary_type, verbosity) past the
\* verbosity test, on the collection col
LayerAddSummary(col, name, tensor, summary_type) ==
  LET full_name == ScanVariableName(DOMAIN col, name, 0)
                     \o GetSummaryTypeSuffix(summary_type)
      t == IF (summary_type = "IMAGE" /\ tensor.ndim = 3)
              \/ (summary_type = "AUDIO" /\ tensor.ndim = 2)
           THEN ExpandDims(tensor) ELSE tensor
  IN IF \/ summary_type = "IMAGE" /\ t.ndim # 4     \* assert tensor.ndim == 4
        \/ summary_type = "AUDIO" /\ t.ndim # 3     \* assert tensor.ndim == 3
     THEN [ok |-> FALSE, dict |-> col]
     ELSE [ok |-> TRUE, dict |-> Sow(col, full_name, t)]

\* the outcome of a summary call: whether it stored, and what it was given
NoSummaryCall == [stored |-> FALSE, name |-> None, type |-> None]
SummaryCall(r, name, summary_type) ==
  IF r.ok THEN [stored |-> TRUE, name |-> name, type |-> summary_type]
  ELSE NoSummaryCall

\* how a summary call was made (its verbosity, whether its tensor argument
\* was a producer callable) and how it ended: "stored", "skipped" by the
\* verbosity test, or "failed" by an assertion; invoked: the producer ran
NoSummaryArgs ==
  [verbosity |-> 0, producer |-> FALSE, invoked |-> FALSE, outcome |-> None]
SummaryArgs(verbosity, producer, invoked, outcome) ==
  [verbosity |-> verbosity, producer |-> producer, invoked |-> invoked,
   outcome |-> outcome]

\* A verbosity test that lets every summary through.
VerbosityNeverTooHigh(verbosity, summary_verbosity) == FALSE

\* `verbosity > context.summary_verbosity`
VerbosityTooHigh(verbosity, summary_verbosity) == verbosity > summary_verbosity

\* add_global_summary(name, tensor, summary_type, verbosity)
AddGlobalSummary(name, ndim, summary_type, verbosity) ==
  /\ ncalls < MaxCalls
  /\ Top(stack) # 0                       \* cur_jax_context()
  /\ ncalls' = ncalls + 1
  /\ IF VerbosityTooHigh(verbosity, SummaryVerbosity)
     THEN /\ slast' = NoSummaryCall /\ UNCHANGED sdict
          /\ scall' = SummaryArgs(verbosity, FALSE, FALSE, "skipped")
     ELSE LET r == SummaryDictAddSummary(
                     sdict, name, [val |-> ncalls + 1, ndim |-> ndim],
                     summary_type)
          IN /\ sdict' = r.dict /\ slast' = SummaryCall(r, name, summary_type)
             /\ scall' = SummaryArgs(verbosity, FALSE, FALSE,
                                     IF r.ok THEN "stored" ELSE "failed")
  /\ UNCHANGED summaries

\* clear_global_summary()
ClearGlobalSummary ==
  /\ Top(stack) # 0
  /\ sdict # <<>>
  /\ sdict' = <<>>
  /\ slast' = NoSummaryCall
  /\ scall' = NoSummaryArgs
  /\ UNCHANGED <<summaries, ncalls>>

\* layer.add_summary(name, tensor, summary_type, verbosity); producer: the
\* tensor argument is a callable that evaluates to the tensor
AddSummary(name, ndim, summary_type, verbosity, producer) ==
  /\ ncalls < MaxCalls
  /\ ncalls' = ncalls + 1
  /\ IF HasContext(stack) /\ VerbosityTooHigh(verbosity, SummaryVerbosity)
     THEN /\ slast' = NoSummaryCall /\ UNCHANGED summaries
          /\ scall' = SummaryArgs(verbosity, producer, FALSE, "skipped")
     ELSE \* `if isinstance(tensor, Callable): tensor = tensor()`
          LET r == LayerAddSummary(
                     summaries, name, [val |-> ncalls + 1, ndim |-> ndim],
                     summary_type)
          IN /\ summaries' = r.dict
             /\ slast' = SummaryCall(r, name, summary_type)
             /\ scall' = SummaryArgs(verbosity, producer, producer,
                                     IF r.ok THEN "stored" ELSE "failed")
  /\ UNCHANGED sdict

\* the thread is inside `with frame:` for frame 1
InFrame ==
  /\ stack = <<1>> /\ scopes = <<[frame |-> 1, pre |-> <<>>]>>
  /\ raising = FALSE /\ exitLog = NoExit

(***************************************************************************)
(* SpecSummaryDict: global summaries added to, and cleared from, the       *)
(* current frame's dictionary.                                             *)
(***************************************************************************)
InitSummaryDict ==
  /\ InFrame /\ LayerIdle /\ BuildIdle /\ MoreIdle
  /\ sdict = <<>> /\ summaries = <<>> /\ ncalls = 0 /\ slast = NoSummaryCall
  /\ scall = NoSummaryArgs

NextSummaryDict ==
  \/ \E name \in SummaryNames, summary_type \in SummaryTypes, v \in Verbosities :
       \E ndim \in TensorNdims(summary_type) :
         AddGlobalSummary(name, ndim, summary_type, v) /\ UNCHANGED notSumVars
  \/ ClearGlobalSummary /\ UNCHANGED notSumVars

SpecSummaryDict == InitSummaryDict /\ [][NextSummaryDict]_vars

(***************************************************************************)
(* SpecLayerSummary: one layer adds summaries during one traversal, with   *)
(* or without a JaxContext frame.                                          *)
(***************************************************************************)
InitLayerSummary ==
  /\ CtxInit \/ InFrame
  /\ LayerIdle /\ BuildIdle /\ MoreIdle
  /\ sdict = <<>> /\ summaries = <<>> /\ ncalls = 0 /\ slast = NoSummaryCall
  /\ scall = NoSummaryArgs

NextLayerSummary ==
  \E name \in SummaryNames, summary_type \in SummaryTypes, v \in Verbosities :
    \E ndim \in TensorNdims(summary_type), producer \in BOOLEAN :
      AddSummary(name, ndim, summary_type, v, producer) /\ UNCHANGED notSumVars

SpecLayerSummary == InitLayerSummary /\ [][NextLayerSummary]_vars

(***************************************************************************)
(* Aux losses: BaseLayer.add_aux_loss sows an AuxLossStruct into the       *)
(* AUX_LOSS collection and reduces by adding values and weights.  The      *)
(* values are float32 scalars; the model takes them among the integers,    *)
(* which float32 holds exactly up to 2^24 and rounds (to nearest, ties to  *)
(* even) beyond.                                                           *)
(***************************************************************************)
MaxAuxCalls == 3

\* the significand of a float32 has 24 bits
F32Limit == 2^24

AuxNames == {"aux", "aux2"}
AuxValues == {1, F32Limit, 0 - F32Limit}
\* weight=None, or an explicit weight
AuxWeights == {None, "2"}

\* the spacing of the float32 numbers around the magnitude a
RECURSIVE F32Spacing(_, _)
F32Spacing(a, u) == IF a < F32Limit * u THEN u ELSE F32Spacing(a, 2 * u)

\* the float32 nearest to the integer x, ties to the even significand
F32Round(x) ==
  LET a == Abs(x)
      u == F32Spacing(a, 1)
      q == a \div u
      r == a % u
      m == IF 2 * r < u THEN q
           ELSE IF 2 * r > u THEN q + 1
           ELSE IF q % 2 = 0 THEN q ELSE q + 1
  IN IF x < 0 THEN 0 - (m * u) ELSE m * u

\* x + y on float32 values
F32Add(x, y) == F32Round(x + y)

\* init_fn: AuxLossStruct(0.0, 0.0)
AuxLossInit == [value |-> 0, weight |-> 0]

\* A reduce_fn that keeps only the latest struct.
ReduceFnLatest(x, y) == y

\* reduce_fn(x, y)
ReduceFn(x, y) ==
  [value |-> F32Add(x.value, y.value), weight |-> F32Add(x.weight, y.weight)]

\* jnp.ones_like(value) when weight is None
WeightOrOnes(weight) == IF weight = None THEN 1 ELSE 2

\* self.sow(AUX_LOSS, name, struct, init_fn=..., reduce_fn=reduce_fn)
SowAuxLoss(col, name, struct) ==
  LET xs == IF name \in DOMAIN col THEN col[name] ELSE AuxLossInit
  IN (name :> ReduceFn(xs, struct)) @@ col

\* layer.add_aux_loss(name, value, weight)
AddAuxLoss(name, value, weight) ==
  LET struct == [value |-> value, weight |-> WeightOrOnes(weight)]
      calls == Len(auxlog["aux"]) + Len(auxlog["aux2"])
  IN /\ calls < MaxAuxCalls
     /\ auxloss' = SowAuxLoss(auxloss, name, struct)
     /\ auxlog' = [auxlog EXCEPT ![name] = Append(@, struct)]

(***************************************************************************)
(* SpecAuxLoss: one layer adds aux losses during one traversal.            *)
(***************************************************************************)
InitAuxLoss ==
  /\ CtxInit /\ LayerIdle /\ BuildIdle /\ SumIdle /\ VarIdle /\ LateIdle
  /\ auxloss = <<>>
  /\ auxlog = [n \in AuxNames |-> <<>>]

NextAuxLoss ==
  \E name \in AuxNames, value \in AuxValues, weight \in AuxWeights :
    AddAuxLoss(name, value, weight) /\ UNCHANGED notAuxVars

SpecAuxLoss == InitAuxLoss /\ [][NextAuxLoss]_vars

(***************************************************************************)
(* The variables of a layer: BaseLayer.create_variable, get_var and        *)
(* update_var.  The layer is `parent`.  flax reserves the name of every    *)
(* param and variable in the module's scope and refuses a name in use.     *)
(***************************************************************************)
VarNames == {"w", "b", "dtype"}

\* the names hasattr(self, name) finds on a layer: its dataclass fields and
\* the attributes of the class
LayerAttrs == HParamFields \cup {"theta", "fprop", "setup"}

\* A create_variable that does not look for an attribute of that name.
HasAttrNever(name) == FALSE

\* hasattr(self, name)
HasAttr(name) == name \in LayerAttrs

\* the WeightHParams passed to create_variable
WeightHParamsInputs ==
  { [shape |-> <<2, 3>>, init |-> None, dtype |-> None,
     collections |-> None, tensor_split_dims_mapping |-> None],
    [shape |-> <<2, 3>>, init |-> "constant", dtype |-> "int8",
     collections |-> <<"__lingvo_jax_skip_regularization">>,
     tensor_split_dims_mapping |-> <<0, -1>>],
    [shape |-> <<3>>, init |-> None, dtype |-> "bfloat16",
     collections |-> <<>>, tensor_split_dims_mapping |-> <<0, -1>>] }

\* the values passed to update_var
NewValues == {[val |-> 1, shape |-> <<2, 3>>], [val |-> 2, shape |-> <<3>>]}

\* BaseLayer.mesh_shape: ici_mesh_shape, times dcn_mesh_shape if that is set
MeshShape(layer) ==
  IF layer.dcn_mesh_shape = None THEN layer.ici_mesh_shape
  ELSE layer.ici_mesh_shape \o "*" \o layer.dcn_mesh_shape

InSeq(x, s) == \E i \in 1..Len(s) : s[i] = x

\* the var_hparams create_variable stores: init and dtype filled in from the
\* layer, the collections extended
FilledHParams(layer, var_hparams, trainable) ==
  LET c0 == IF var_hparams.collections = None THEN <<>>
            ELSE var_hparams.collections
      c1 == IF layer.skip_lp_regularization = "True"
               /\ ~InSeq("__lingvo_jax_skip_regularization", c0)
            THEN Append(c0, "__lingvo_jax_skip_regularization") ELSE c0
      c2 == IF ~trainable /\ ~InSeq("_lingvo_jax_non_trainable", c1)
            THEN Append(c1, "_lingvo_jax_non_trainable") ELSE c1
  IN [var_hparams EXCEPT
        !.init = IF @ = None THEN layer.params_init.method ELSE @,
        !.dtype = IF @ = None THEN layer.dtype ELSE @,
        !.collections = c2]

\* the initial value of a variable of these hparams
InitVar(var_hparams) == [val |-> 0, shape |-> var_hparams.shape]

VarFailed(st, e) == [ok |-> FALSE, err |-> e, st |-> st]
VarDone(st) == [ok |-> TRUE, err |-> None, st |-> st]

\* self.param(name, _initializer_fn), then self._theta.add(name)
Param(st, mode, name, var_hparams) ==
  IF name \in st.reserved THEN VarFailed(st, "NameInUseError")
  ELSE LET s1 == [st EXCEPT !.reserved = @ \cup {name}]
       IN IF name \in s1.params
          THEN VarDone([s1 EXCEPT !.theta = @ \cup {name}])
          ELSE IF mode.initializing
          THEN VarDone([s1 EXCEPT !.params = @ \cup {name},
                                  !.theta = @ \cup {name}])
          ELSE VarFailed(s1, "ScopeParamNotFoundError")

\* self.variable(NON_TRAINABLE, name, _initializer_fn), then get_var(name)
Variable(st, mode, name, var_hparams) ==
  IF name \in st.reserved THEN VarFailed(st, "NameInUseError")
  ELSE LET s1 == [st EXCEPT !.reserved = @ \cup {name}]
       IN IF name \in DOMAIN s1.non_trainable THEN VarDone(s1)
          ELSE IF mode.mutable
          THEN VarDone([s1 EXCEPT !.non_trainable =
                          (name :> InitVar(var_hparams)) @@ @])
          ELSE VarFailed(s1, "ScopeCollectionNotFound")

\* BaseLayer.create_variable(name, var_hparams, trainable)
CreateVariableRes(layer, st, mode, name, var_hparams, trainable) ==
  IF HasAttr(name) THEN VarFailed(st, "AttributeError")
  ELSE IF /\ MeshShape(layer) # None
          /\ var_hparams.tensor_split_dims_mapping # None
          /\ Len(var_hparams.tensor_split_dims_mapping) # Len(var_hparams.shape)
  THEN VarFailed(st, "AssertionError")
  ELSE LET hp == FilledHParams(layer, var_hparams, trainable)
           s1 == [st EXCEPT !.weight_hparams = (name :> hp) @@ @]
       IN IF trainable THEN Param(s1, mode, name, hp)
          ELSE Variable(s1, mode, name, hp)

\* A test that lets update_var write whenever the collection is mutable.
UpdateAppliesWhenMutable(mode) == mode.mutable

\* `self.is_mutable_collection(NON_TRAINABLE) and not self.is_initializing()`
UpdateApplies(mode) == mode.mutable /\ ~mode.initializing

\* BaseLayer.update_var(name, new_val)
UpdateVarRes(st, mode, name, new_val) ==
  IF name \notin DOMAIN st.non_trainable
  THEN VarFailed(st, "AssertionError")           \* get_var
  ELSE LET old_val == st.non_trainable[name]
       IN IF UpdateApplies(mode)
          THEN IF old_val.shape # new_val.shape
               THEN VarFailed(st, "ValueError")  \* asserts.eq
               ELSE VarDone([st EXCEPT !.non_trainable[name] = new_val])
          ELSE VarDone(st)

NoVarCall == [op |-> None, name |-> None, ok |-> TRUE, err |-> None,
              trainable |-> FALSE, new_val |-> <<>>]

CreateVariable(name, var_hparams, trainable) ==
  LET r == CreateVariableRes(parent, vstate, vmode, name, var_hparams, trainable)
  IN /\ vstate' = r.st
     /\ vlast' = [op |-> "create_variable", name |-> name, ok |-> r.ok,
                  err |-> r.err, trainable |-> trainable, new_val |-> <<>>]
     /\ UNCHANGED vmode

UpdateVar(name, new_val) ==
  LET r == UpdateVarRes(vstate, vmode, name, new_val)
  IN /\ vstate' = r.st
     /\ vlast' = [op |-> "update_var", name |-> name, ok |-> r.ok,
                  err |-> r.err, trainable |-> FALSE, new_val |-> <<new_val>>]
     /\ UNCHANGED vmode

(***************************************************************************)
(* SpecVars: a layer creates and updates its variables in one traversal,   *)
(* init (no variables yet) or apply (the variables "w" and "b" given).     *)
(***************************************************************************)
GivenVariables(initializing) ==
  [weight_hparams |-> <<>>, theta |-> {}, reserved |-> {},
   params |-> IF initializing THEN {} ELSE {"w"},
   non_trainable |-> IF initializing THEN <<>>
                     ELSE ("b" :> [val |-> 0, shape |-> <<2, 3>>])]

InitVars ==
  /\ CtxInit /\ BuildIdle /\ SumIdle /\ AuxIdle /\ LateIdle
  /\ cache = None /\ layers = <<>> /\ children = None /\ cfg = None
  /\ last = None
  /\ parent \in ParentLayers
  /\ vmode \in [initializing : BOOLEAN, mutable : BOOLEAN]
  /\ vstate = GivenVariables(vmode.initializing)
  /\ vlast = NoVarCall

NextVars ==
  \/ \E name \in VarNames, hp \in WeightHParamsInputs, trainable \in BOOLEAN :
       CreateVariable(name, hp, trainable) /\ UNCHANGED notVarVars
  \/ \E name \in VarNames, new_val \in NewValues :
       UpdateVar(name, new_val) /\ UNCHANGED notVarVars

SpecVars == InitVars /\ [][NextVars]_vars

(***************************************************************************)
(* Threads.  _JaxContextStack is a py_utils.ThreadLocalStack: every thread *)
(* that touches it has a stack of its own, empty at first.                 *)
(***************************************************************************)
NumThreads == 2
MaxThreadDepth == 1

Threads == 1..NumThreads

\* One stack for the whole process, whichever thread asks.
ProcessWideStack(tl, thread) == tl[1]

\* _JaxContextStack.stack, read in `thread`
ThreadLocalStack(tl, thread) == tl[thread]

\* JaxContext.top() called in `thread`
ThreadTop(thread) == Top(ThreadLocalStack(tstacks, thread))

\* JaxContext.has_context() called in `thread`
ThreadHasContext(thread) == HasContext(ThreadLocalStack(tstacks, thread))

\* `thread` calls frame.__enter__()
ThreadEnter(thread, f) ==
  LET stk == ThreadLocalStack(tstacks, thread)
  IN /\ Len(stk) < MaxThreadDepth
     /\ tstacks' = [tstacks EXCEPT ![thread] = JaxContextEnter(stk, f)]
     /\ tpushed' = [tpushed EXCEPT ![thread] = @ \cup {f}]
     /\ tlast' = [thread |-> thread, op |-> "enter", ok |-> TRUE]

\* `thread` calls frame.__exit__(...)
ThreadExit(thread, f) ==
  LET r == JaxContextExit(ThreadLocalStack(tstacks, thread), f)
  IN /\ tstacks' = [tstacks EXCEPT ![thread] = r.stack]
     /\ tlast' = [thread |-> thread, op |-> "exit", ok |-> r.ok]
     /\ UNCHANGED tpushed

InitThreads ==
  /\ CtxInit /\ LayerIdle /\ BuildIdle /\ SumIdle /\ AuxIdle /\ VarIdle
  /\ BoxIdle /\ PureIdle /\ JaxIdle
  /\ tstacks = [t \in Threads |-> <<>>]
  /\ tpushed = [t \in Threads |-> {}]
  /\ tlast = [thread |-> 0, op |-> None, ok |-> TRUE]

NextThreads ==
  \/ \E t \in Threads, f \in Frames : ThreadEnter(t, f) /\ UNCHANGED notThrVars
  \/ \E t \in Threads, f \in Frames : ThreadExit(t, f) /\ UNCHANGED notThrVars

SpecThreads == InitThreads /\ [][NextThreads]_vars

(***************************************************************************)
(* BoxedParam.add_axis / remove_axis.  A repeat_* field of the meta is     *)
(* None, a list or a tuple; the code tests which.                          *)
(***************************************************************************)
MaxAxes == 2

\* metadata_params['x_times']
XTimes == {2, 3}
\* metadata_params['sub_weight_split_dims_mapping'] and
\* metadata_params['optimizer_dims_mapping']: None (<<>>) or one entry
SubMappings == {<<>>, <<0>>}

NoneField == [type |-> "none", items |-> <<>>]
ListOf(items) == [type |-> "list", items |-> items]
TupleOf(items) == [type |-> "tuple", items |-> items]

\* `if field:` -- None and empty sequences are false
Truthy(field) == field.type # "none" /\ field.items # <<>>

\* a WeightHParams with no repeat prefix, boxed with its value
BoxInit ==
  [value |-> "v",
   meta |-> [shape |-> <<4, 3>>,
             tensor_split_dims_mapping |-> <<0, -1>>,
             repeat_prefix |-> NoneField,
             repeat_prefix_split_dims_mapping |-> NoneField,
             repeat_optimizer_dims_mapping |-> NoneField]]

MetadataParams ==
  [is_initializing : BOOLEAN, x_times : XTimes,
   sub_weight_split_dims_mapping : SubMappings,
   optimizer_dims_mapping : SubMappings]

\* `tuple(m)` when m is not None, else (-1,)
OrUnsharded(m) == IF m # <<>> THEN m ELSE <<-1>>

BoxFailed(self, err) ==
  [ok |-> FALSE, err |-> err, same |-> FALSE, ret |-> self,
   self_after |-> self]
BoxSelf(self) ==
  [ok |-> TRUE, err |-> None, same |-> TRUE, ret |-> self,
   self_after |-> self]
\* self.replace(meta=new_meta)
BoxReplaced(self, new_meta, self_after) ==
  [ok |-> TRUE, err |-> None, same |-> FALSE,
   ret |-> [self EXCEPT !.meta = new_meta], self_after |-> self_after]

\* A copy whose list fields are the original's own lists.
CopyCopyMeta(meta) == [meta |-> meta, shared |-> TRUE]

\* copy.deepcopy(self.meta)
DeepCopy(meta) == [meta |-> meta, shared |-> FALSE]

\* BoxedParam.add_axis(index, metadata_params)
AddAxisRes(self, index, metadata_params) ==
  LET m == self.meta
      wp_sub == OrUnsharded(metadata_params.sub_weight_split_dims_mapping)
      optimizer_dims_mapping ==
        OrUnsharded(metadata_params.optimizer_dims_mapping)
      new_meta == DeepCopy(m).meta
  IN IF index # 0 THEN BoxFailed(self, "ValueError")
     ELSE IF ~metadata_params.is_initializing THEN BoxSelf(self)
     ELSE IF Truthy(m.repeat_prefix) /\ m.repeat_prefix.type # "list"
     THEN BoxFailed(self, "AssertionError")
     ELSE IF /\ Truthy(m.repeat_prefix_split_dims_mapping)
             /\ m.repeat_prefix_split_dims_mapping.type # "tuple"
     THEN BoxFailed(self, "AssertionError")
     ELSE IF /\ Truthy(m.repeat_optimizer_dims_mapping)
             /\ m.repeat_optimizer_dims_mapping.type # "tuple"
     THEN BoxFailed(self, "AssertionError")
     ELSE BoxReplaced(self,
            [new_meta EXCEPT
               !.repeat_prefix =
                 ListOf(<<metadata_params.x_times>> \o m.repeat_prefix.items),
               !.repeat_prefix_split_dims_mapping =
                 TupleOf(wp_sub \o m.repeat_prefix_split_dims_mapping.items),
               !.repeat_optimizer_dims_mapping =
                 TupleOf(optimizer_dims_mapping
                           \o m.repeat_optimizer_dims_mapping.items)],
            self)

\* BoxedParam.remove_axis(index, metadata_params)
RemoveAxisRes(self, index, metadata_params) ==
  LET wp_sub == OrUnsharded(metadata_params.sub_weight_split_dims_mapping)
      optimizer_dims_mapping ==
        OrUnsharded(metadata_params.optimizer_dims_mapping)
      c == DeepCopy(self.meta)
      m == c.meta
      \* new_meta.repeat_prefix.pop(0) changes the list in place
      popped == ListOf(Tail(m.repeat_prefix.items))
      m1 == IF Truthy(m.repeat_prefix)
            THEN [m EXCEPT !.repeat_prefix = popped] ELSE m
      m2 == IF Truthy(m.repeat_prefix_split_dims_mapping)
            THEN [m1 EXCEPT !.repeat_prefix_split_dims_mapping =
                    ListOf(Tail(m.repeat_prefix_split_dims_mapping.items))]
            ELSE m1
      m3 == IF Truthy(m.repeat_optimizer_dims_mapping)
            THEN [m2 EXCEPT !.repeat_optimizer_dims_mapping =
                    ListOf(Tail(m.repeat_optimizer_dims_mapping.items))]
            ELSE m2
      self_after ==
        IF c.shared /\ Truthy(m.repeat_prefix)
        THEN [self EXCEPT !.meta.repeat_prefix = popped] ELSE self
  IN IF index # 0 THEN BoxFailed(self, "ValueError")
     ELSE IF ~metadata_params.is_initializing THEN BoxSelf(self)
     ELSE IF Truthy(m.repeat_prefix) /\ m.repeat_prefix.type # "list"
     THEN BoxFailed(self, "AssertionError")
     ELSE IF /\ Truthy(m.repeat_prefix)
             /\ Head(m.repeat_prefix.items) # metadata_params.x_times
     THEN BoxFailed(self_after, "AssertionError")
     ELSE IF /\ Truthy(m.repeat_prefix_split_dims_mapping)
             /\ m.repeat_prefix_split_dims_mapping.type # "tuple"
     THEN BoxFailed(self_after, "AssertionError")
     ELSE IF /\ Truthy(m.repeat_prefix_split_dims_mapping)
             /\ <<Head(m.repeat_prefix_split_dims_mapping.items)>> # wp_sub
     THEN BoxFailed(self_after, "AssertionError")
     ELSE IF /\ Truthy(m.repeat_optimizer_dims_mapping)
             /\ m.repeat_optimizer_dims_mapping.type # "tuple"
     THEN BoxFailed(self_after, "AssertionError")
     ELSE IF /\ Truthy(m.repeat_optimizer_dims_mapping)
             /\ <<Head(m.repeat_optimizer_dims_mapping.items)>>
                  # optimizer_dims_mapping
     THEN BoxFailed(self_after, "AssertionError")
     ELSE BoxReplaced(self, m3, self_after)

NoBoxCall ==
  [op |-> None, index |-> 0, is_initializing |-> FALSE, ok |-> TRUE,
   err |-> None, same |-> FALSE, recv |-> BoxInit, recv_after |-> BoxInit,
   ret |-> BoxInit]

BoxCall(op, index, metadata_params, r) ==
  [op |-> op, index |-> index,
   is_initializing |-> metadata_params.is_initializing, ok |-> r.ok,
   err |-> r.err, same |-> r.same, recv |-> box, recv_after |-> r.self_after,
   ret |-> r.ret]

\* a call that is one of the transform's: index 0, while initializing
Counted(index, metadata_params) ==
  index = 0 /\ metadata_params.is_initializing

\* the x_times / split-dims / optimizer-dims parameters of a call
AxisParams(metadata_params) ==
  [x_times |-> metadata_params.x_times,
   sub_weight_split_dims_mapping |->
     metadata_params.sub_weight_split_dims_mapping,
   optimizer_dims_mapping |-> metadata_params.optimizer_dims_mapping]

\* the transform adds a leading axis to the parameter it is handed
AddAxis(index, metadata_params) ==
  LET r == AddAxisRes(box, index, metadata_params)
  IN /\ Len(box.meta.repeat_prefix.items) < MaxAxes
     /\ box' = IF r.ok THEN r.ret ELSE r.self_after
     /\ bhist' = [adds |-> IF r.ok /\ ~r.same
                            THEN bhist.adds + 1 ELSE bhist.adds,
                   removed |-> bhist.removed,
                   stack |-> IF Counted(index, metadata_params)
                             THEN IF bhist.paired /\ ~bhist.removing /\ r.ok
                                  THEN <<AxisParams(metadata_params)>>
                                         \o bhist.stack
                                  ELSE <<>>
                             ELSE bhist.stack,
                   paired |-> IF Counted(index, metadata_params)
                              THEN bhist.paired /\ ~bhist.removing /\ r.ok
                              ELSE bhist.paired,
                   removing |-> bhist.removing,
                   from_remove |-> IF r.ok /\ ~r.same
                                   THEN FALSE ELSE bhist.from_remove,
                   recv_from_remove |-> bhist.from_remove]
     /\ blast' = BoxCall("add_axis", index, metadata_params, r)

\* the transform removes the leading axis of the parameter it is handed
RemoveAxis(index, metadata_params) ==
  LET r == RemoveAxisRes(box, index, metadata_params)
  IN /\ box' = IF r.ok THEN r.ret ELSE r.self_after
     /\ bhist' = [adds |-> 0, removed |-> TRUE,
                   stack |-> IF Counted(index, metadata_params)
                             THEN IF /\ bhist.paired
                                     /\ bhist.stack # <<>>
                                     /\ Head(bhist.stack)
                                          = AxisParams(metadata_params)
                                  THEN Tail(bhist.stack) ELSE <<>>
                             ELSE bhist.stack,
                   paired |-> IF Counted(index, metadata_params)
                              THEN /\ bhist.paired
                                   /\ bhist.stack # <<>>
                                   /\ Head(bhist.stack)
                                        = AxisParams(metadata_params)
                              ELSE bhist.paired,
                   removing |-> bhist.removing
                                  \/ Counted(index, metadata_params),
                   from_remove |-> IF r.ok /\ ~r.same
                                   THEN TRUE ELSE bhist.from_remove,
                   recv_from_remove |-> bhist.from_remove]
     /\ blast' = BoxCall("remove_axis", index, metadata_params, r)

InitBox ==
  /\ CtxInit /\ LayerIdle /\ BuildIdle /\ SumIdle /\ AuxIdle /\ VarIdle
  /\ ThrIdle /\ PureIdle /\ JaxIdle
  /\ box = BoxInit
  /\ bhist = [adds |-> 0, removed |-> FALSE, stack |-> <<>>,
              paired |-> TRUE, removing |-> FALSE, from_remove |-> FALSE,
              recv_from_remove |-> FALSE]
  /\ blast = NoBoxCall

NextBox ==
  \/ \E index \in {0, 1}, mp \in MetadataParams :
       AddAxis(index, mp) /\ UNCHANGED notBoxVars
  \/ \E index \in {0, 1}, mp \in MetadataParams :
       RemoveAxis(index, mp) /\ UNCHANGED notBoxVars

SpecBox == InitBox /\ [][NextBox]_vars

(***************************************************************************)
(* get_fan_in_fan_out.  An optional argument or result is <<>> for None    *)
(* and <<x>> for x.                                                        *)
(***************************************************************************)
MaxRank == 4
MaxDim == 5

\* the idle parts of a specification about one function of the module
OthersIdle ==
  /\ CtxInit /\ LayerIdle /\ BuildIdle /\ SumIdle /\ AuxIdle /\ VarIdle
  /\ ThrIdle /\ BoxIdle

RECURSIVE SeqsUpTo(_, _)
\* the sequences over S of length at most n
SeqsUpTo(S, n) ==
  IF n = 0 THEN {<<>>}
  ELSE LET shorter == SeqsUpTo(S, n - 1)
       IN shorter \cup {Append(s, x) : s \in {t \in shorter : Len(t) = n - 1},
                                       x \in S}

Shapes == SeqsUpTo(1..MaxDim, MaxRank)

\* fan_in_axes / fan_out_axes: None, or a list of axes
FanAxes == {<<>>, <<<<-2>>>>, <<<<-1>>>>, <<<<0>>>>, <<<<0, 1>>>>}

\* shape[i], with Python's negative indices
Idx(shape, i) == IF i < 0 THEN shape[Len(shape) + i + 1] ELSE shape[i + 1]

RECURSIVE Product(_)
Product(s) == IF s = <<>> THEN 1 ELSE Head(s) * Product(Tail(s))

\* the entries of shape on the given axes
OnAxes(shape, axes) == [k \in 1..Len(axes) |-> Idx(shape, axes[k])]

Returned(v) == [ok |-> TRUE, err |-> None, val |-> v]
Raised(err) == [ok |-> FALSE, err |-> err, val |-> <<>>]

\* A fan computation that leaves the receptive field out.
ReceptiveFieldNone(shape, fan_in_axes, fan_out_axes) == <<>>

\* receptive_field_axis: list(range(len(shape)))[:-2] with the default axes,
\* [] with explicit ones
ReceptiveField(shape, fan_in_axes, fan_out_axes) ==
  IF fan_in_axes = <<>> /\ fan_out_axes = <<>>
  THEN SubSeq(shape, 1, Len(shape) - 2)
  ELSE <<>>

\* get_fan_in_fan_out(shape, fan_in_axes, fan_out_axes); the value returned
\* is <<>> for (None, None) and <<fan_in, fan_out>> otherwise
GetFanInFanOut(shape, fan_in_axes, fan_out_axes) ==
  IF shape = <<>> THEN Returned(<<>>)
  ELSE IF Len(shape) < 1 THEN Returned(<<1, 1>>)
  ELSE IF Len(shape) = 1 THEN Returned(<<shape[1], shape[1]>>)
  ELSE IF (fan_in_axes = <<>>) # (fan_out_axes = <<>>)
  THEN Raised("AssertionError")
  ELSE LET default == fan_in_axes = <<>> /\ fan_out_axes = <<>>
           in_axes == IF default THEN <<-2>> ELSE fan_in_axes[1]
           out_axes == IF default THEN <<-1>> ELSE fan_out_axes[1]
           receptive_field_size ==
             Product(ReceptiveField(shape, fan_in_axes, fan_out_axes))
       IN Returned(<<Product(OnAxes(shape, in_axes)) * receptive_field_size,
                     Product(OnAxes(shape, out_axes)) * receptive_field_size>>)

\* the call has not been made yet
Pending == [ok |-> FALSE, err |-> "pending", val |-> <<>>]

CallFan ==
  /\ pret = Pending
  /\ pret' = GetFanInFanOut(pcall.shape, pcall.fan_in_axes, pcall.fan_out_axes)
  /\ UNCHANGED pcall

InitFan ==
  /\ OthersIdle /\ JaxIdle
  /\ pcall \in [fn : {"get_fan_in_fan_out"}, shape : Shapes,
                fan_in_axes : FanAxes, fan_out_axes : FanAxes]
  /\ pret = Pending

NextFan == CallFan /\ UNCHANGED notPureVars

SpecFan == InitFan /\ [][NextFan]_vars

(***************************************************************************)
(* init_var.  The tensor returned is described by the distribution it is   *)
(* drawn from and the factors the scale was multiplied by.                 *)
(***************************************************************************)
MaxInitRank == 6
MaxInitDim == 1

\* the method names the WeightInit factories produce
WeightInitMethods ==
  {"gaussian", "uniform", "xavier", "constant", "truncated_gaussian",
   "gaussian_sqrt_dim", "gaussian_sqrt_fanin", "gaussian_sqrt_fanout",
   "gaussian_sqrt_fanavg", "uniform_sqrt_dim", "uniform_sqrt_fanavg",
   "uniform_unit_scaling", "truncated_gaussian_sqrt_dim",
   "truncated_gaussian_sqrt_fanin", "truncated_gaussian_sqrt_fanout",
   "delta_orthogonal"}

\* WeightInit(method, scale) can be given any string
Methods == WeightInitMethods \cup {"truncated_gaussian_sqrt_fanavg"}

InitShapes == SeqsUpTo(0..MaxInitDim, MaxInitRank)

\* the inputs of init_var: var_p.init.method, var_p.shape, var_p.repeat_prefix
\* and var_p.repeat_prefix_split_dims_mapping (<<>> when None or empty)
InitVarInputs ==
  [fn : {"init_var"}, method : Methods, shape : InitShapes,
   repeat_prefix : {<<>>, <<2>>},
   repeat_prefix_split_dims_mapping : {<<>>, <<-1>>}]

Factor(op, arg) == [op |-> op, arg |-> arg]
Tensor(dist, factors) == Returned([dist |-> dist, factors |-> factors])

\* the scale after the `scale *= ...` statements, as the factors applied, or
\* the error one of them raised
ScaleFactors(method, shape, dim0) ==
  LET fans == GetFanInFanOut(shape, <<>>, <<>>).val
      f1 == IF method \in {"gaussian_sqrt_dim", "uniform_sqrt_dim",
                           "truncated_gaussian_sqrt_dim"}
            THEN <<Factor("1/sqrt", dim0)>> ELSE <<>>
      f2 == IF /\ method \in {"gaussian_sqrt_fanin",
                              "truncated_gaussian_sqrt_fanin"}
               /\ fans # <<>>
            THEN <<Factor("1/sqrt", fans[1])>> ELSE <<>>
      f3 == IF /\ method \in {"gaussian_sqrt_fanout",
                              "truncated_gaussian_sqrt_fanout"}
               /\ fans # <<>>
            THEN <<Factor("1/sqrt", fans[2])>> ELSE <<>>
      f4 == IF /\ method \in {"gaussian_sqrt_fanavg", "uniform_sqrt_fanavg"}
               /\ fans # <<>>
            THEN <<Factor("sqrt(2/)", fans[1] + fans[2])>> ELSE <<>>
  IN f1 \o f2 \o f3 \o f4

\* A delta-orthogonal initializer that takes only 3D, 4D and 5D shapes.
DeltaOrthogonalStrict(shape, factors) ==
  IF Len(shape) \in {3, 4, 5} THEN Tensor("delta_orthogonal", factors)
  ELSE Raised("ValueError")

\* the delta_orthogonal branch of init_var, with scaled_orthogonal and
\* scaled_delta_orthogonal
DeltaOrthogonal(shape, factors) ==
  IF Len(shape) < 2 THEN Tensor("normal", factors)
  ELSE IF Len(shape) = 2 THEN Tensor("orthogonal", factors)
  ELSE IF Len(shape) \in {3, 4, 5} THEN Tensor("delta_orthogonal", factors)
  ELSE Raised("ValueError")

\* A shape check that lets every shape through.
AllPositiveUnchecked(shape) == TRUE

\* all([dim_size > 0 for dim_size in shape])
AllPositive(shape) == \A i \in 1..Len(shape) : shape[i] > 0

\* init_var(var_p, prng_key, var_full_name)
InitVarRes(var_p) ==
  LET method == var_p.method
      shape == var_p.shape
      dim0 == IF shape # <<>> THEN shape[1] ELSE 1
      factors == ScaleFactors(method, shape, dim0)
      fans == GetFanInFanOut(shape, <<>>, <<>>).val
  IN IF var_p.repeat_prefix # <<>> THEN Raised("AssertionError")
     ELSE IF var_p.repeat_prefix_split_dims_mapping # <<>>
     THEN Raised("AssertionError")
     ELSE IF shape # <<>> /\ ~AllPositive(shape)
     THEN Raised("AssertionError")
     ELSE IF method = "delta_orthogonal" THEN DeltaOrthogonal(shape, factors)
     ELSE IF method \in {"gaussian", "gaussian_sqrt_dim",
                         "gaussian_sqrt_fanin", "gaussian_sqrt_fanout",
                         "gaussian_sqrt_fanavg"}
     THEN Tensor("normal", factors)
     ELSE IF method \in {"uniform", "uniform_sqrt_dim"}
     THEN Tensor("uniform", factors)
     ELSE IF method = "uniform_sqrt_fanavg"
     THEN Tensor("uniform", factors \o <<Factor("sqrt", 3)>>)
     ELSE IF method \in {"truncated_gaussian", "truncated_gaussian_sqrt_dim",
                         "truncated_gaussian_sqrt_fanin",
                         "truncated_gaussian_sqrt_fanout"}
     THEN Tensor("truncated_normal", factors)
     ELSE IF method = "constant" THEN Tensor("constant", factors)
     ELSE IF method = "xavier"
     THEN IF fans = <<>> THEN Raised("TypeError")   \* None + None
          ELSE Tensor("uniform",
                      factors \o <<Factor("sqrt(6/)", fans[1] + fans[2])>>)
     ELSE IF method = "uniform_unit_scaling"
     THEN Tensor("uniform",
                 factors \o <<Factor("sqrt(3/)",
                                     Product(SubSeq(shape, 1, Len(shape) - 1)))>>)
     ELSE Raised("AssertionError")   \* assert False, 'init_type ...'

CallInitVar ==
  /\ pret = Pending
  /\ pret' = InitVarRes(pcall)
  /\ UNCHANGED pcall

InitInitVar == OthersIdle /\ JaxIdle /\ pcall \in InitVarInputs /\ pret = Pending

NextInitVar == CallInitVar /\ UNCHANGED notPureVars

SpecInitVar == InitInitVar /\ [][NextInitVar]_vars

(***************************************************************************)
(* Theta: theta.<name> and theta[name].                                    *)
(***************************************************************************)
DTypes == {"float32", "bfloat16", "float16", "int32"}
FPropDTypes == {"float32", "bfloat16", "float16"}
\* jnp.issubdtype(x.dtype, jnp.floating)
Floating(dtype) == dtype # "int32"

\* the names read: a plain variable name, and the name of the attribute that
\* Theta.__init__ sets on the Theta object itself
ThetaNames == {"w", "module"}
ThetaOwnAttrs == {"module"}

\* the layer and the read: whether `name` is in the layer's params
\* collection, the dtype of the stored value, whether the variable's
\* collections hold the tag, and the layer's fprop_dtype
ThetaInputs ==
  [fn : {"theta.name", "theta[name]"}, name : ThetaNames,
   has_variable : BOOLEAN, dtype : DTypes,
   disallow_bfloat16_conversion : BOOLEAN, fprop_dtype : FPropDTypes]

\* BaseLayer._cast_to_fprop_dtype(value): the dtype of the result
CastToFpropDtype(fprop_dtype, dtype) ==
  IF fprop_dtype # dtype /\ Floating(dtype) THEN fprop_dtype ELSE dtype

\* A tag that keeps the stored dtype under every fprop_dtype.
ReturnsUncastWhenTagged(fprop_dtype, tagged) == tagged

\* `self.module.fprop_dtype == jnp.bfloat16 and
\*  var_disallow_bfloat16_conversion(var_hparams)`
ReturnsUncast(fprop_dtype, tagged) == fprop_dtype = "bfloat16" /\ tagged

\* Theta.__getitem__(k); the body of Theta.__getattr__(k) is the same
ThetaGetItem(c) ==
  IF ~c.has_variable THEN Raised("ValueError")
  ELSE IF ReturnsUncast(c.fprop_dtype, c.disallow_bfloat16_conversion)
  THEN Returned([obj |-> "variable", dtype |-> c.dtype])
  ELSE Returned([obj |-> "variable",
                 dtype |-> CastToFpropDtype(c.fprop_dtype, c.dtype)])

\* theta.<k>: Python calls __getattr__ only when the Theta object has no
\* attribute k of its own
ThetaGetAttr(c) ==
  IF c.name \in ThetaOwnAttrs
  THEN Returned([obj |-> "layer", dtype |-> None])
  ELSE ThetaGetItem(c)

ThetaRes(c) ==
  IF c.fn = "theta.name" THEN ThetaGetAttr(c) ELSE ThetaGetItem(c)

CallTheta ==
  /\ pret = Pending
  /\ pret' = ThetaRes(pcall)
  /\ UNCHANGED pcall

InitTheta == OthersIdle /\ JaxIdle /\ pcall \in ThetaInputs /\ pret = Pending

NextTheta == CallTheta /\ UNCHANGED notPureVars

SpecTheta == InitTheta /\ [][NextTheta]_vars

(***************************************************************************)
(* var_partition_specs and to_partition_spec, for one WeightHParams.  An   *)
(* entry of a split-dims mapping is an integer or None.                    *)
(***************************************************************************)
NumMeshAxes == 2
MaxSpecRank == 2

AxisNames == <<"x", "y", "z", "u">>
\* device_axis_names
DeviceAxisNames == SubSeq(AxisNames, 1, NumMeshAxes)

IntEntry(i) == [kind |-> "int", i |-> i]
NoneEntry == [kind |-> "none", i |-> 0]
MappingEntries == {IntEntry(i) : i \in -1..NumMeshAxes} \cup {NoneEntry}

\* an optional mapping: None (<<>>) or a mapping (<<m>>)
Mappings(n) == {<<>>} \cup {<<m>> : m \in SeqsUpTo(MappingEntries, n)}

SpecInputs ==
  [fn : {"var_partition_specs"},
   shape : SeqsUpTo({2}, MaxSpecRank),
   tensor_split_dims_mapping : Mappings(MaxSpecRank),
   repeat_prefix : {<<>>, <<<<>>>>, <<<<3>>>>},
   repeat_prefix_split_dims_mapping : Mappings(1)]

Unsharded == "None"

\* A conversion that takes any integer for the name of an axis it has.
ParseSplitDimUnchecked(s_i, mesh_axis_names) ==
  IF s_i.kind = "int" /\ s_i.i >= 0 /\ s_i.i < Len(mesh_axis_names)
  THEN <<mesh_axis_names[s_i.i + 1]>>
  ELSE <<Unsharded>>

\* one step of _parse_split_dims: <<entry>>, or <<>> when an assertion fails
ParseSplitDim(s_i, mesh_axis_names) ==
  IF s_i.kind = "int"
  THEN IF s_i.i < 0 THEN <<Unsharded>>
       ELSE IF s_i.i < Len(mesh_axis_names)
       THEN <<mesh_axis_names[s_i.i + 1]>>
       ELSE <<>>
  ELSE <<Unsharded>>

\* to_partition_spec(split_dims_mapping, mesh_axis_names)
ToPartitionSpec(split_dims_mapping, mesh_axis_names) ==
  LET parsed == [k \in 1..Len(split_dims_mapping) |->
                   ParseSplitDim(split_dims_mapping[k], mesh_axis_names)]
  IN IF \E k \in 1..Len(parsed) : parsed[k] = <<>>
     THEN Raised("AssertionError")
     ELSE Returned([k \in 1..Len(parsed) |-> parsed[k][1]])

\* [-1] * n
AllUnsharded(n) == [k \in 1..n |-> IntEntry(-1)]

\* _get_spec(var_p) of var_partition_specs
GetSpec(var_p) ==
  LET v_shape == var_p.shape
      tm == var_p.tensor_split_dims_mapping
      pm == var_p.repeat_prefix_split_dims_mapping
      v_split_dim_mapping ==
        IF tm # <<>> THEN tm[1] ELSE AllUnsharded(Len(v_shape))
  IN IF tm # <<>> /\ Len(tm[1]) # Len(v_shape) THEN Raised("AssertionError")
     ELSE IF var_p.repeat_prefix = <<>>
     THEN ToPartitionSpec(v_split_dim_mapping, DeviceAxisNames)
     ELSE LET repeat_prefix == var_p.repeat_prefix[1]
          IN IF pm # <<>> /\ Len(pm[1]) # Len(repeat_prefix)
             THEN Raised("AssertionError")
             ELSE ToPartitionSpec(
                    (IF pm # <<>> THEN pm[1]
                     ELSE AllUnsharded(Len(repeat_prefix)))
                      \o v_split_dim_mapping,
                    DeviceAxisNames)

\* var_p.clone()
CloneHParams(var_p) == [f \in DOMAIN var_p |-> var_p[f]]

CallGetSpec ==
  /\ pret = Pending
  /\ pret' = GetSpec(pcall)
  /\ UNCHANGED pcall

InitGetSpec == OthersIdle /\ JaxIdle /\ pcall \in SpecInputs /\ pret = Pending

NextGetSpec == CallGetSpec /\ UNCHANGED notPureVars

SpecPartition == InitGetSpec /\ [][NextGetSpec]_vars

(***************************************************************************)
(* PaxConfig.copy_fields_from.  A config is the dataclass it configures    *)
(* (for each field: absent, or how an unset value is supplied), the value  *)
(* its class gives as a default, and its explicit arguments.               *)
(***************************************************************************)
Unset == "<unset>"
OwnFields == {"f", "g"}
AllFields == {"name", "parent"} \cup OwnFields
\* dataclasses.fields() order
FieldOrder == <<"name", "parent", "f", "g">>
FieldKinds == {"absent", "default", "factory1", "factory2", "required"}
IsFactory(kind) == kind \in {"factory1", "factory2"}

ConfigClasses ==
  {[n \in AllFields |-> IF n \in OwnFields THEN c[n] ELSE "default"] :
     c \in [OwnFields -> FieldKinds]}

\* the configs of class cls with explicit value v for some of its own fields
ConfigsOf(cls, dflt, v, nm, par) ==
  {[cls |-> cls, dflt |-> dflt,
    args |-> [n \in AllFields |->
                IF n = "name" THEN nm
                ELSE IF n = "parent" THEN par
                ELSE IF n \in set THEN v ELSE Unset]] :
     set \in SUBSET {n \in OwnFields : cls[n] # "absent"}}

CopyInputs ==
  UNION {UNION {
    [fn : {"copy_fields_from"},
     self : ConfigsOf(c1, "self_default", "self_value", "dst", Unset),
     source : ConfigsOf(c2, "source_default", "source_value", "src", "p"),
     missing_fields_in_self : SUBSET OwnFields] :
    c2 \in ConfigClasses} : c1 \in ConfigClasses}

\* A field filter that lets name and parent through.
InitFieldsAll(config) == {n \in AllFields : config.cls[n] # "absent"}

\* {field.name: field for field in dataclasses.fields(...) if field.init and
\*  field.name not in ('parent', 'name')}
InitFields(config) ==
  {n \in AllFields : config.cls[n] # "absent"} \ {"parent", "name"}

CopyResult(ok, err, self, source) ==
  [ok |-> ok, err |-> err, val |-> [self |-> self, source |-> source]]

\* the second loop of copy_fields_from, from the k-th field on
RECURSIVE CopyLoop(_, _, _)
CopyLoop(self, source, k) ==
  IF k > Len(FieldOrder) THEN CopyResult(TRUE, None, self, source)
  ELSE
    LET name == FieldOrder[k]
        setTo(v) == [self EXCEPT !.args[name] = v]
    IN IF name \notin InitFields(self) \/ name \notin InitFields(source)
       THEN CopyLoop(self, source, k + 1)
       ELSE IF source.args[name] # Unset
       THEN CopyLoop(setTo(source.args[name]), source, k + 1)
       ELSE IF source.cls[name] = "default"
       THEN CopyLoop(setTo(source.dflt), source, k + 1)
       ELSE IF IsFactory(source.cls[name])
       THEN IF source.cls[name] = self.cls[name]
            THEN CopyLoop(setTo(Unset), source, k + 1)
            ELSE CopyResult(FALSE, "ValueError", self, source)
       ELSE CopyResult(FALSE, "ValueError", self, source)

\* self.copy_fields_from(source, missing_fields_in_self)
CopyFieldsFrom(self, source, missing_fields_in_self) ==
  IF \E name \in InitFields(source) :
       name \notin InitFields(self) /\ name \notin missing_fields_in_self
  THEN CopyResult(FALSE, "ValueError", self, source)
  ELSE CopyLoop(self, source, 1)

CallCopyFieldsFrom ==
  /\ pret = Pending
  /\ pret' = CopyFieldsFrom(pcall.self, pcall.source,
                            pcall.missing_fields_in_self)
  /\ UNCHANGED pcall

InitCopyFields == OthersIdle /\ JaxIdle /\ pcall \in CopyInputs /\ pret = Pending

NextCopyFields == CallCopyFieldsFrom /\ UNCHANGED notPureVars

SpecCopyFields == InitCopyFields /\ [][NextCopyFields]_vars

(***************************************************************************)
(* JaxContext objects: the constructor and new_context.  HParams objects   *)
(* and dicts live in two heaps and are referred to by their position, so   *)
(* that two references to one object can be told from two equal objects.   *)
(***************************************************************************)
MaxContexts == 2
MaxWrites == 2

DoEvalValues == {None, "True"}
VerbosityValues == {3, 0}

\* JaxContext.HParams(): do_eval None, summary_verbosity 3,
\* mesh_axes_transpose None (reference 0)
DefaultJaxHParams ==
  [do_eval |-> None, summary_verbosity |-> 3, mesh_axes_transpose |-> 0]

\* A clone that hands back the object it was asked to copy.
CloneAlias(hps, dicts, id) == [hps |-> hps, dicts |-> dicts, id |-> id]

\* hparams.clone(): a deep copy, so a dict the object holds is copied too
Clone(hps, dicts, id) ==
  LET h == hps[id]
      dicts1 == IF h.mesh_axes_transpose = 0 THEN dicts
                ELSE Append(dicts, dicts[h.mesh_axes_transpose])
      h1 == IF h.mesh_axes_transpose = 0 THEN h
            ELSE [h EXCEPT !.mesh_axes_transpose = Len(dicts1)]
  IN [hps |-> Append(hps, h1), dicts |-> dicts1, id |-> Len(hps) + 1]

\* JaxContext.__init__(self, hparams)
JaxContextInit(hps, dicts, hparams) ==
  LET c == Clone(hps, dicts, hparams)
  IN [hps |-> c.hps,
      dicts |-> c.dicts \o <<{}, {}>>,
      self |-> [hparams |-> c.id,
                summary_dict |-> Len(c.dicts) + 1,
                shared_layers |-> Len(c.dicts) + 2]]

\* JaxContext.new_context(hparams=...), hparams = 0 standing for None
NewContextRes(hps, dicts, stk, frames, hparams) ==
  LET current == Top(stk)
      n == IF hparams = 0
           THEN IF current = 0
                THEN [hps |-> Append(hps, DefaultJaxHParams),
                      dicts |-> dicts, id |-> Len(hps) + 1]
                ELSE Clone(hps, dicts, frames[current].self.hparams)
           ELSE Clone(hps, dicts, hparams)
  IN JaxContextInit(n.hps, n.dicts, n.id)

\* the settings an HParams object holds, the dict by its contents
Settings(hps, dicts, id) ==
  [do_eval |-> hps[id].do_eval,
   summary_verbosity |-> hps[id].summary_verbosity,
   mesh_axes_transpose |->
     IF hps[id].mesh_axes_transpose = 0 THEN <<>>
     ELSE <<dicts[hps[id].mesh_axes_transpose]>>]

\* a call other than new_context, as the last call
JaxCall(op, f) ==
  [op |-> op, frame |-> f, stack |-> <<>>,
   inherited |-> Settings(<<DefaultJaxHParams>>, <<>>, 1)]

\* the HParams object the caller has made itself: JaxContext.HParams(...)
CallerHParams == 1
CallerHParamsChoices ==
  [do_eval : DoEvalValues, summary_verbosity : VerbosityValues,
   mesh_axes_transpose : {0, 1}]

\* context = JaxContext.new_context(hparams=hparams)
NewContext(hparams) ==
  LET r == NewContextRes(jhparams, jdicts, jstack, jframes, hparams)
      from == IF hparams # 0 THEN hparams
              ELSE IF Top(jstack) # 0 THEN jframes[Top(jstack)].self.hparams
              ELSE 0
      inherited == IF from = 0
                   THEN Settings(<<DefaultJaxHParams>>, <<>>, 1)
                   ELSE Settings(jhparams, jdicts, from)
  IN /\ Len(jframes) < MaxContexts
     /\ jhparams' = r.hps
     /\ jdicts' = r.dicts
     /\ jframes' = Append(jframes,
          [self |-> r.self, added |-> {}, registered |-> {},
           own |-> inherited])
     /\ jlast' = [op |-> "new_context", frame |-> Len(jframes) + 1,
                  stack |-> jstack, inherited |-> inherited]
     /\ UNCHANGED <<jstack, jwrites>>

\* with context: ...
JaxEnter(f) ==
  /\ \A k \in 1..Len(jstack) : jstack[k] # f
  /\ jstack' = JaxContextEnter(jstack, f)
  /\ jlast' = JaxCall("other", 0)
  /\ UNCHANGED <<jhparams, jdicts, jframes, jwrites>>

\* the end of the innermost with-block
JaxExit ==
  /\ jstack # <<>>
  /\ jstack' = JaxContextExit(jstack, Last(jstack)).stack
  /\ jlast' = JaxCall("other", 0)
  /\ UNCHANGED <<jhparams, jdicts, jframes, jwrites>>

\* the ways the caller changes an HParams object it can reach
HParamsWrites ==
  [field : {"do_eval"}, value : {"True"}]
    \cup [field : {"mesh_axes_transpose"}, value : {"new_axis"}]

\* obj.<field> = value, or obj.mesh_axes_transpose[value] = ...; f is the
\* frame whose .hparams the object was reached through, 0 for an object
\* the caller made
WriteHParams(f, w) ==
  LET id == IF f = 0 THEN CallerHParams ELSE jframes[f].self.hparams
      d == jhparams[id].mesh_axes_transpose
  IN /\ jwrites < MaxWrites
     /\ jwrites' = jwrites + 1
     /\ IF w.field = "do_eval"
        THEN /\ jhparams' = [jhparams EXCEPT ![id].do_eval = w.value]
             /\ UNCHANGED jdicts
        ELSE /\ d # 0
             /\ jdicts' = [jdicts EXCEPT ![d] = @ \cup {w.value}]
             /\ UNCHANGED jhparams
     /\ jframes' = IF f = 0 THEN jframes
                   ELSE [jframes EXCEPT ![f].own =
                           Settings(jhparams', jdicts', id)]
     /\ jlast' = JaxCall("other", 0)
     /\ UNCHANGED jstack

JaxSummaryKeys == {"loss_scalar"}
SharedLayerIds == {"shared"}

\* context.summary_dict.add_summary(...) under a key the dict does not have
JaxAddSummary(f, full_name) ==
  LET d == jframes[f].self.summary_dict
  IN /\ jwrites < MaxWrites
     /\ jwrites' = jwrites + 1
     /\ full_name \notin jdicts[d]
     /\ jdicts' = [jdicts EXCEPT ![d] = @ \cup {full_name}]
     /\ jframes' = [jframes EXCEPT ![f].added = @ \cup {full_name}]
     /\ jlast' = JaxCall("other", 0)
     /\ UNCHANGED <<jhparams, jstack>>

\* context.set_shared_layer(root_scope, shared_layer_id, ...) for an id the
\* map does not have
JaxSetSharedLayer(f, shared_layer_id) ==
  LET d == jframes[f].self.shared_layers
  IN /\ jwrites < MaxWrites
     /\ jwrites' = jwrites + 1
     /\ shared_layer_id \notin jdicts[d]
     /\ jdicts' = [jdicts EXCEPT ![d] = @ \cup {shared_layer_id}]
     /\ jframes' = [jframes EXCEPT ![f].registered = @ \cup {shared_layer_id}]
     /\ jlast' = JaxCall("other", 0)
     /\ UNCHANGED <<jhparams, jstack>>

InitNewContext ==
  /\ OthersIdle /\ PureIdle
  /\ \E h \in CallerHParamsChoices :
       /\ jhparams = <<h>>
       /\ jdicts = IF h.mesh_axes_transpose = 0 THEN <<>> ELSE <<{}>>
  /\ jframes = <<>> /\ jstack = <<>> /\ jwrites = 0
  /\ jlast = JaxCall(None, 0)

NextNewContext ==
  \/ \E hparams \in {0, CallerHParams} :
       NewContext(hparams) /\ UNCHANGED notJaxVars
  \/ \E f \in 1..Len(jframes) : JaxEnter(f) /\ UNCHANGED notJaxVars
  \/ JaxExit /\ UNCHANGED notJaxVars
  \/ \E f \in 0..Len(jframes), w \in HParamsWrites :
       WriteHParams(f, w) /\ UNCHANGED notJaxVars
  \/ \E f \in 1..Len(jframes), n \in JaxSummaryKeys :
       JaxAddSummary(f, n) /\ UNCHANGED notJaxVars
  \/ \E f \in 1..Len(jframes), id \in SharedLayerIds :
       JaxSetSharedLayer(f, id) /\ UNCHANGED notJaxVars

SpecNewContext == InitNewContext /\ [][NextNewContext]_vars

(***************************************************************************)
(* SpecChildren: the parent layer creates children, one at a time and as   *)
(* lists, from one template config the caller holds, inside a frame.       *)
(***************************************************************************)
TemplateCfgs ==
  {[DefaultCfg EXCEPT !["C"].dtype = d, !["C"].shared_weight_layer_id = s,
                      !["C"].name = "template"] :
     d \in FieldValues("dtype"), s \in {None} \cup TruthyIds}

InitChildren ==
  /\ stack = <<1>> /\ scopes = <<[frame |-> 1, pre |-> <<>>]>>
  /\ raising = FALSE /\ exitLog = NoExit
  /\ LayerInit(ParentLayers, TemplateCfgs)
  /\ BuildIdle /\ SumIdle /\ MoreIdle

NextChildren ==
  \/ \E name \in ChildNames : CreateChild(name) /\ UNCHANGED notLayerVars
  \/ \E name \in ChildNames, n \in 1..MaxChildren :
       CreateChildren(name, n) /\ UNCHANGED notLayerVars

SpecChildren == InitChildren /\ [][NextChildren]_vars

(***************************************************************************)
(* The claims.                                                             *)
(***************************************************************************)

\* C1: when a frame's scope exits, normally or because an error was raised
\* inside it, the context stack is exactly what it was immediately before the
\* frame was entered, so has_context() and top() return their pre-entry values.
C1_ExitRestoresStack ==
  exitLog.valid =>
    /\ exitLog.ok
    /\ exitLog.post = exitLog.pre
    /\ HasContext(exitLog.post) = HasContext(exitLog.pre)
    /\ Top(exitLog.post) = Top(exitLog.pre)

\* A scope nested in another frame's scope was left by a raised error.
C1_Witness ==
  /\ exitLog.valid
  /\ exitLog.raised
  /\ exitLog.pre # <<>>
  /\ stack = exitLog.pre

\* The layers that own weights under a shared id: those built behind a wrapper.
SharedLayers == {i \in 1..Len(layers) : layers[i].wrapper # None}

\* C2 as stated: for configs carrying the same non-null shared_weight_layer_id
\* under the same root scope, at most one weight-owning layer instance is
\* ever constructed.
C2_OnePerScopeAndId ==
  \A i, j \in SharedLayers :
    (layers[i].root = layers[j].root /\ layers[i].wrapper = layers[j].wrapper)
      => i = j

\* A step that is a call of instantiate_layer or create_child with a truthy id
SharedCallStep ==
  /\ last' # last
  /\ last'.op \in {"instantiate_layer", "create_child"}
  /\ last'.ok
  /\ cfg["C"].shared_weight_layer_id \in TruthyIds

\* C2 as amended: while one JaxContext frame is the current one, at most one
\* weight-owning layer is constructed per (root scope, non-empty id); the
\* first completed call builds one layer and registers it in that frame, and
\* every later completed call returns the registered layer and builds nothing.
C2_OnePerFrameScopeAndId ==
  /\ [](\A i, j \in SharedLayers :
         (/\ layers[i].ctx = layers[j].ctx
          /\ layers[i].root = layers[j].root
          /\ layers[i].wrapper = layers[j].wrapper) => i = j)
  /\ [][SharedCallStep =>
         LET key == <<last'.scope, cfg["C"].shared_weight_layer_id>>
             cell == cache[Top(stack)][key]
             cell2 == cache'[Top(stack)][key]
         IN IF cell # <<>>
            THEN /\ last'.found
                 /\ layers' = layers
                 /\ last'.layer = cell[1].layer
            ELSE /\ ~last'.found
                 /\ Len(layers') = Len(layers) + 1
                 /\ last'.layer = Len(layers')
                 /\ cell2 # <<>>
                 /\ cell2[1].layer = last'.layer]_vars

\* A second create_child with the shared id got the layer built by the first.
C2_Witness ==
  /\ last.op = "create_child"
  /\ last.ok
  /\ last.found
  /\ Len(layers) = 1
  /\ layers[1].wrapper \in TruthyIds
  /\ last.layer = 1

\* C3: a set_shared_layer for a (root scope, id) pair that already has an
\* entry fails with an assertion and leaves the entry unchanged; each pair is
\* registered at most once and its entry never changes once set.
C3_RegisteredOnce ==
  /\ []((last.op = "set_shared_layer" /\ last.found) =>
         (~last.ok /\ last.err = "AssertionError"))
  /\ [][\A f \in Frames, k \in CacheKeys :
          cache[f][k] # <<>> => cache'[f][k] = cache[f][k]]_vars

\* A registration was attempted for a pair that had an entry, with another
\* wrapper than the registered one.
C3_Witness ==
  /\ last.op = "set_shared_layer"
  /\ last.found
  /\ ~last.ok
  /\ cache[last.frame][<<last.scope, "s">>] # <<>>
  /\ cache[last.frame][<<last.scope, "s">>][1].wrapper # last.layer

\* C6: create_child(name, config) fails with an error when name is a declared
\* config field of the layer or the name of a child already created, and the
\* layer's registered children are left unchanged (nothing is instantiated).
C6_ConflictingNameFails ==
  [][(/\ last' # last
      /\ last'.op = "create_child"
      /\ (last'.name \in HParamFields \/ children[last'.name] # 0))
     => (~last'.ok /\ children' = children /\ layers' = layers)]_vars


\* the value a built layer has for a base field
ChildValue(layer, f) ==
  IF f = "fprop_dtype" THEN layer.fprop_dtype ELSE layer.hp["C"][f]

\* the caller left the field at its unset default, as the copy-down judges
\* it: dtype float32, params_init the default Xavier initializer (its scale
\* within the tolerance of is_default_param_init), None for the others
LeftAtDefault(f, v) ==
  CASE f = "dtype" -> v = DefaultFields.dtype
    [] f = "params_init" -> IsDefaultParamInit(v)
    [] OTHER -> v = None

\* C7: after create_child(name, cfg), for each inherited base field the
\* child's value equals the parent's value when cfg left the field at its
\* unset default, and equals cfg's own value when cfg set it to a non-default
\* value.
C7_ChildInheritsUnsetFields ==
  \A i \in 1..Len(layers) : \A f \in InheritedFields :
    ChildValue(layers[i], f) =
      IF LeftAtDefault(f, cfg["C"][f]) THEN parent[f] ELSE cfg["C"][f]

\* A child configured with skip_lp_regularization=False and its own
\* params_init, under a parent with True, bfloat16 and another initializer.
C7_Witness ==
  /\ Len(layers) > 0
  /\ parent.skip_lp_regularization = "True"
  /\ cfg["C"].skip_lp_regularization = "False"
  /\ ChildValue(layers[1], "skip_lp_regularization") = "False"
  /\ cfg["C"].params_init.method = "uniform"
  /\ ChildValue(layers[1], "params_init") = cfg["C"].params_init
  /\ cfg["C"].dtype = "float32"
  /\ ChildValue(layers[1], "dtype") = "bfloat16"
  /\ ChildValue(layers[1], "fprop_dtype") = "bfloat16"

\* C8: the copy-down of create_child changes inherited fields only in the
\* child config and in the nested layer configs reachable from it through
\* arguments not tagged DoNotBuild, each nested layer config inheriting from
\* its nearest enclosing layer config; every config at or beneath a
\* DoNotBuild-tagged argument keeps all of its field values.
C8_CopyDownStopsAtDoNotBuild ==
  \A i \in 1..Len(layers) :
    LET t == layers[i].hp
    IN /\ t["T"] = cfg["T"] /\ t["TS"] = cfg["TS"]
       /\ \A n \in {"C", "S"} : \A f \in DOMAIN DefaultFields :
            t[n][f] # cfg[n][f] =>
              \/ n = "C" /\ f = "name"
              \/ /\ f \in InheritedFields
                 /\ t[n][f] = IF n = "C" THEN parent[f] ELSE t["C"][f]
       /\ \A n \in {"C", "S"} : \A f \in InheritedFields :
            LeftAtDefault(f, cfg[n][f]) =>
              t[n][f] = IF n = "C" THEN parent[f] ELSE t["C"][f]

\* The nested layer config S took the child's own False, not the parent's
\* True, and the template T under the DoNotBuild argument took nothing.
C8_Witness ==
  /\ Len(layers) > 0
  /\ parent.skip_lp_regularization = "True"
  /\ parent.dtype = "bfloat16"
  /\ cfg["C"].skip_lp_regularization = "False"
  /\ cfg["S"] = DefaultFields
  /\ layers[1].hp["S"].skip_lp_regularization = "False"
  /\ layers[1].hp["S"].dtype = "bfloat16"
  /\ layers[1].hp["T"] = DefaultFields
  /\ layers[1].hp["TS"] = DefaultFields

\* the Buildables an argument value holds
Held(v) == IF v.kind \in {"cfg", "list"} THEN {v.ref} ELSE {}

\* the Buildables reachable from the root through untagged arguments only
RECURSIVE UntaggedReach(_, _, _)
UntaggedReach(g, S, steps) ==
  IF steps = 0 THEN S
  ELSE UntaggedReach(g,
         S \cup UNION {UNION {Held(g[n][i].val) :
                                i \in {j \in 1..Len(g[n]) : ~g[n][j].DoNotBuild}} :
                        n \in S},
         steps - 1)

\* the built objects the callable of Buildable m produced
ObjectsOf(b, m) == {k \in 1..Len(b.objs) : b.objs[k].callable = m}

\* C4: build passes each argument tagged DoNotBuild to the node's callable
\* verbatim, the identical unbuilt object with nothing beneath it built, while
\* every untagged Buildable argument of the same node is replaced by its built
\* result before the node's callable is invoked.
C4_DoNotBuildPassedVerbatim ==
  \A x \in 1..Len(built) :
    LET b == built[x]
    IN /\ \A k \in 1..Len(b.objs) :
            LET o == b.objs[k]
            IN \A i \in 1..Len(dag[o.callable]) :
                 LET a == dag[o.callable][i]
                 IN IF a.DoNotBuild THEN o.args[i] = a.val
                    ELSE a.val.kind = "cfg" =>
                           /\ o.args[i].kind = "obj"
                           /\ o.args[i].ref < k
                           /\ b.objs[o.args[i].ref].callable = a.val.ref
       /\ \A m \in BuildNodes :
            ObjectsOf(b, m) # {} =>
              m \in UntaggedReach(dag, {b.root}, NumNodes)

\* The root has a tagged Buildable argument with a Buildable beneath it and
\* an untagged Buildable sibling.
C4_Witness ==
  /\ built # <<>>
  /\ dag[1][1] = [val |-> Cfg(2), DoNotBuild |-> TRUE]
  /\ dag[1][2] = [val |-> Cfg(3), DoNotBuild |-> FALSE]
  /\ dag[2][1] = [val |-> Cfg(4), DoNotBuild |-> FALSE]
  /\ built[1].objs[built[1].result.ref].args = <<Cfg(2), Obj(1)>>
  /\ ObjectsOf(built[1], 2) = {} /\ ObjectsOf(built[1], 4) = {}

\* C5: during one build call, a Buildable reachable through several untagged
\* paths of the config DAG has its callable invoked exactly once, and every
\* reference to it in the built result is the same result object.
C5_BuiltOnce ==
  \A x \in 1..Len(built) :
    LET b == built[x]
    IN \A m \in UntaggedReach(dag, {b.root}, NumNodes) :
         /\ Cardinality(ObjectsOf(b, m)) = 1
         /\ \A k \in 1..Len(b.objs) : \A i \in 1..Len(dag[b.objs[k].callable]) :
              LET a == dag[b.objs[k].callable][i]
              IN (~a.DoNotBuild /\ m \in Held(a.val)) =>
                   {b.objs[k].args[i].ref} = ObjectsOf(b, m)

\* Buildable 3 is an argument of the root, directly, and of Buildable 2,
\* inside a list.
C5_Witness ==
  /\ built # <<>>
  /\ dag[1][1] = [val |-> Cfg(2), DoNotBuild |-> FALSE]
  /\ dag[1][2] = [val |-> Cfg(3), DoNotBuild |-> FALSE]
  /\ dag[2][1] = [val |-> ListOfCfg(3), DoNotBuild |-> FALSE]
  /\ Len(built[1].objs) = 3
  /\ built[1].objs[2].args = <<ListOfObj(1)>>
  /\ built[1].objs[3].args = <<Obj(2), Obj(1)>>

\* a summary call stored its tensor in this step
SummaryStored == ncalls' # ncalls /\ slast'.stored

\* the type suffixes: an aggregate type has the suffix of its base type
TypeSuffix(summary_type) ==
  CASE summary_type \in {"SCALAR", "AGGREGATE_SCALAR"} -> "_scalar"
    [] summary_type \in {"IMAGE", "AGGREGATE_IMAGE"} -> "_image"
    [] summary_type = "AUDIO" -> "_audio"

\* name+suffix for k = 0 and name+k+suffix for k >= 1
NumberedKey(name, k, suffix) ==
  IF k = 0 THEN name \o suffix ELSE name \o ToString(k) \o suffix

\* the step inserts exactly the key `key` and leaves the old entries alone
InsertsOnly(old, new, key) ==
  /\ key \notin DOMAIN old
  /\ DOMAIN new = DOMAIN old \cup {key}
  /\ \A k \in DOMAIN old : new[k] = old[k]

\* C9: two add_summary calls on the same layer with the same name and the
\* same summary type within one traversal are stored under two distinct keys
\* of the SUMMARIES collection, the second with a counter before the type
\* suffix (loss_scalar and loss1_scalar), so the first value is not
\* overwritten.
C9_SameNameDistinctKeys ==
  [][(SummaryStored /\ slast.stored
        /\ slast'.name = slast.name /\ slast'.type = slast.type) =>
       \E key \in DOMAIN summaries' : InsertsOnly(summaries, summaries', key)]_vars

\* C10: each add_summary call on a frame's summary dictionary inserts exactly
\* one new key and never overwrites an existing entry: the key is
\* name+type_suffix if that is free, otherwise name+k+type_suffix for the
\* smallest k >= 1 whose fully-suffixed key is free, where the aggregate
\* scalar and image types use the suffix of their base type.  (Of the calls
\* that return: a call whose image tensor fails the ndim assertion raises.)
C10_InsertsSmallestFreeKey ==
  [][SummaryStored =>
       \E k \in 0..ncalls :
         LET suffix == TypeSuffix(slast'.type)
         IN /\ InsertsOnly(sdict, sdict', NumberedKey(slast'.name, k, suffix))
            /\ \A j \in 0..(k - 1) :
                 NumberedKey(slast'.name, j, suffix) \in DOMAIN sdict]_vars

\* "loss1" then "loss" were added as scalars, and then "loss" as an aggregate
\* scalar, which found loss_scalar and loss1_scalar taken.
C10_Witness ==
  /\ DOMAIN sdict = {"loss_scalar", "loss1_scalar", "loss2_scalar"}
  /\ sdict["loss1_scalar"].val = 1
  /\ sdict["loss_scalar"].val = 2
  /\ sdict["loss2_scalar"].val = 3
  /\ slast = [stored |-> TRUE, name |-> "loss", type |-> "AGGREGATE_SCALAR"]

\* the tensor passed by the call of this step is in the SUMMARIES collection
Recorded == \E key \in DOMAIN summaries' : summaries'[key].val = ncalls'

\* C11: a layer's add_summary records the summary exactly when no JaxContext
\* is active or the active frame's summary_verbosity is >= the requested
\* verbosity; otherwise the call is a no-op that leaves the SUMMARIES
\* collection unchanged and does not invoke a producer callable passed as the
\* value.  (A call that fails an ndim assertion returns nothing and records
\* nothing.)
C11_RecordedIffVerbosityAllows ==
  [][ncalls' # ncalls =>
       IF ~HasContext(stack) \/ SummaryVerbosity >= scall'.verbosity
       THEN /\ scall'.outcome # "skipped"
            /\ scall'.outcome = "stored" => Recorded
            /\ scall'.producer => scall'.invoked
       ELSE /\ scall'.outcome = "skipped"
            /\ summaries' = summaries
            /\ ~scall'.invoked]_vars

\* Inside a frame, a summary was recorded,
\* and then a less important one with a producer callable was dropped.
C11_Witness ==
  /\ HasContext(stack)
  /\ ncalls = 2
  /\ DOMAIN summaries = {"loss_scalar"}
  /\ summaries["loss_scalar"].val = 1
  /\ scall = SummaryArgs(SummaryVerbosity + 1, TRUE, FALSE, "skipped")

\* v_1 + ... + v_n over the reals, for the field f of the logged structs
RECURSIVE ExactSum(_, _)
ExactSum(structs, f) ==
  IF structs = <<>> THEN 0
  ELSE ExactSum(Front(structs), f) + Last(structs)[f]

\* ((v_1 + v_2) + ...) + v_n in float32, in the order of the calls
RECURSIVE CallOrderSum(_, _)
CallOrderSum(structs, f) ==
  IF structs = <<>> THEN 0
  ELSE F32Add(CallOrderSum(Front(structs), f), Last(structs)[f])

\* every partial sum of the calls is a float32, so that no addition rounds
NoRounding(structs, f) ==
  \A n \in 1..Len(structs) : Abs(ExactSum(SubSeq(structs, 1, n), f)) <= F32Limit

\* C12: after n >= 1 add_aux_loss calls on a layer with the same name in one
\* traversal, with values v_1..v_n and weights w_1..w_n (an omitted weight
\* counting as all-ones), the stored aux-loss entry for that name has value
\* v_1+...+v_n and weight w_1+...+w_n, independent of the order of the calls.
C12_SumIndependentOfOrder ==
  \A name \in AuxNames :
    auxlog[name] # <<>> =>
      /\ name \in DOMAIN auxloss
      /\ auxloss[name].value = ExactSum(auxlog[name], "value")
      /\ auxloss[name].weight = ExactSum(auxlog[name], "weight")

\* C12 as amended: the stored entry holds the values and the weights added
\* in the order of the calls in floating point; it is the sum v_1+...+v_n
\* (and so independent of the order) when no addition rounds.
C12_SumInCallOrder ==
  \A name \in AuxNames :
    IF auxlog[name] = <<>> THEN name \notin DOMAIN auxloss
    ELSE /\ name \in DOMAIN auxloss
         /\ \A f \in {"value", "weight"} :
              /\ auxloss[name][f] = CallOrderSum(auxlog[name], f)
              /\ NoRounding(auxlog[name], f) =>
                   auxloss[name][f] = ExactSum(auxlog[name], f)

\* Three calls for one name, one without a weight, whose sum is exact.
C12_Witness ==
  /\ Len(auxlog["aux"]) = 3
  /\ auxlog["aux"][1] = [value |-> 1, weight |-> 1]
  /\ auxlog["aux"][2] = [value |-> 0 - F32Limit, weight |-> 2]
  /\ auxlog["aux"][3] = [value |-> F32Limit, weight |-> 2]
  /\ auxloss["aux"] = [value |-> 1, weight |-> 5]

\* C13: update_var(name, new) replaces the stored non-trainable variable only
\* when the NON_TRAINABLE collection is mutable and the layer is not
\* initializing; in every other case the stored value is unchanged and no
\* error is raised for an existing variable.  When the update applies, a new
\* value whose shape differs from the old value's shape makes the call fail
\* and the stored value remains the old one.
C13_UpdateOnlyWhenMutableAndNotInit ==
  [][(vlast'.op = "update_var"
        /\ vlast'.name \in DOMAIN vstate.non_trainable) =>
       LET name == vlast'.name
           new == vlast'.new_val[1]
           old == vstate.non_trainable[name]
       IN IF vmode.mutable /\ ~vmode.initializing
          THEN IF new.shape = old.shape
               THEN /\ vlast'.ok
                    /\ vstate' = [vstate EXCEPT !.non_trainable[name] = new]
               ELSE ~vlast'.ok /\ vstate' = vstate
          ELSE vlast'.ok /\ vstate' = vstate]_vars

\* In an apply traversal with NON_TRAINABLE mutable, the variable "b" was
\* replaced, and then an update with another shape failed.
C13_Witness ==
  /\ vlast.op = "update_var" /\ vlast.name = "b" /\ ~vlast.ok
  /\ vmode.mutable /\ ~vmode.initializing
  /\ vstate.non_trainable["b"] = [val |-> 1, shape |-> <<2, 3>>]

\* C14: create_variable(name, hparams, trainable) fails with an error when
\* the layer already has a field or attribute called name, and then creates
\* no variable and leaves the layer's name->WeightHParams map and its theta
\* name set unchanged; on success exactly one entry for name is added to the
\* map, and name is added to the theta set only when trainable is true.
C14_CreateVariableNameConflict ==
  [][vlast'.op = "create_variable" =>
       LET name == vlast'.name
       IN /\ name \in LayerAttrs => (~vlast'.ok /\ vstate' = vstate)
          /\ vlast'.ok =>
               /\ name \notin DOMAIN vstate.weight_hparams
               /\ DOMAIN vstate'.weight_hparams =
                    DOMAIN vstate.weight_hparams \cup {name}
               /\ \A n \in DOMAIN vstate.weight_hparams :
                    vstate'.weight_hparams[n] = vstate.weight_hparams[n]
               /\ vstate'.theta =
                    IF vlast'.trainable THEN vstate.theta \cup {name}
                    ELSE vstate.theta]_vars

\* A trainable "w" and a non-trainable "b" were created, and then a variable
\* named like the field dtype was refused.
C14_Witness ==
  /\ vlast.op = "create_variable" /\ vlast.name = "dtype"
  /\ vlast.err = "AttributeError"
  /\ DOMAIN vstate.weight_hparams = {"w", "b"}
  /\ vstate.theta = {"w"}

\* two config trees are equal once the name field of both is cleared
EqualButForName(p, q) ==
  \A n \in LayerNodes : \A f \in DOMAIN DefaultFields :
    (n # "C" \/ f # "name") => p[n][f] = q[n][f]

\* C15: when instantiate_layer finds a cache entry for the config's
\* shared_weight_layer_id, it reuses the cached layer only if the entry's
\* stored hparams equal the requested config after the name field of both is
\* cleared; if they differ in any other field it fails with an assertion,
\* constructs no layer and leaves the cache entry unchanged.
C15_ReuseOnlyIfCompatible ==
  [][(/\ cfg' = cfg
      /\ last'.op = "instantiate_layer"
      /\ cfg["C"].shared_weight_layer_id \in TruthyIds
      /\ Top(stack) # 0
      /\ cache[Top(stack)][<<last'.scope, cfg["C"].shared_weight_layer_id>>]
           # <<>>) =>
       LET entry == cache[Top(stack)]
                      [<<last'.scope, cfg["C"].shared_weight_layer_id>>][1]
       IN /\ layers' = layers
          /\ cache' = cache
          /\ IF EqualButForName(entry.hparams, cfg)
             THEN last'.ok /\ last'.layer = entry.layer
             ELSE ~last'.ok /\ last'.err = "AssertionError"]_vars

\* The layer registered for "s" was built from a float32 config; the request
\* with a bfloat16 config found it and failed.
C15_Witness ==
  /\ last.op = "instantiate_layer"
  /\ last.found /\ ~last.ok /\ last.err = "AssertionError"
  /\ cfg["C"].dtype = "bfloat16"
  /\ cache[1][<<last.scope, "s">>] # <<>>
  /\ cache[1][<<last.scope, "s">>][1].hparams["C"].dtype = "float32"
  /\ cache[1][<<last.scope, "s">>][1].hparams["C"].name # cfg["C"].name

\* C16: exiting a frame that is not the top of the stack, or exiting when the
\* stack is empty, fails with an assertion and removes nothing; a frame is
\* removed only by its own exit while it is the top of the stack.
C16_ExitOnlyTopOfStack ==
  [][(exitLog' # exitLog \/ Len(stack') < Len(stack)) =>
       IF stack = <<>> \/ Last(stack) # exitLog'.frame
       THEN ~exitLog'.ok /\ stack' = stack
       ELSE exitLog'.ok /\ stack' = Front(stack)]_vars

\* Frame 1 was asked to exit while frame 2 was above it.
C16_Witness ==
  /\ exitLog.valid /\ ~exitLog.ok
  /\ exitLog.frame = 1
  /\ exitLog.pre = <<1, 2>>
  /\ stack = <<1, 2>>

\* C17: with two or more threads entering and exiting frames in any
\* interleaving, top() and has_context() in a thread depend only on that
\* thread's own enters and exits: an enter or exit made by one thread changes
\* neither in any other thread, top() in a thread returns only a frame that
\* thread has pushed, and a thread that has pushed nothing has no context.
C17_ThreadsSeeOwnStack ==
  /\ [](\A t \in Threads :
          /\ ThreadTop(t) # 0 => ThreadTop(t) \in tpushed[t]
          /\ tpushed[t] = {} => ~ThreadHasContext(t))
  /\ [][\A t \in Threads :
          t # tlast'.thread =>
            /\ ThreadTop(t)' = ThreadTop(t)
            /\ ThreadHasContext(t)' = ThreadHasContext(t)]_vars

\* Thread 1 is inside frame 1 and thread 2 has just entered frame 2; neither
\* has entered the other's frame.
C17_Witness ==
  /\ ThreadTop(1) = 1 /\ ThreadTop(2) = 2
  /\ tpushed[1] = {1} /\ tpushed[2] = {2}
  /\ tlast.thread = 2 /\ tlast.op = "enter"

\* the path strings of the walks from Buildable n to `target` through
\* untagged arguments
RECURSIVE PathsFrom(_, _, _, _)
PathsFrom(g, n, target, steps) ==
  (IF n = target THEN {""} ELSE {}) \cup
  (IF steps = 0 THEN {}
   ELSE UNION {{"." \o ArgNames(n)[i] \o
                  (IF g[n][i].val.kind = "list" THEN "[0]" ELSE "") \o p :
                  p \in PathsFrom(g, g[n][i].val.ref, target, steps - 1)} :
               i \in {j \in 1..Len(g[n]) :
                        ~g[n][j].DoNotBuild /\ Held(g[n][j].val) # {}}})

\* the Buildables build has to build whose callable raises
RaisingReach(b) ==
  {m \in UntaggedReach(dag, {b.root}, NumNodes) : raisers[m] # None}

\* C18: if the callable of a Buildable that build has to build raises an
\* error other than TaggedValueNotFilledError, build raises a BuildError that
\* carries a path from the root to that Buildable and the original error; a
\* TaggedValueNotFilledError propagates unchanged; in both cases no built
\* object is returned, and build fails in no other case.
C18_BuildErrorCarriesPath ==
  \A x \in 1..Len(built) :
    LET b == built[x]
    IN /\ (b.err = <<>>) <=> (RaisingReach(b) = {})
       /\ b.err # <<>> =>
            LET er == b.err[1]
            IN /\ b.result = NoResult
               /\ er.original.by \in RaisingReach(b)
               /\ er.original.kind = raisers[er.original.by]
               /\ IF er.original.kind = "TaggedValueNotFilledError"
                  THEN er.type = "TaggedValueNotFilledError"
                  ELSE /\ er.type = "BuildError"
                       /\ er.buildable = er.original.by
                       /\ er.path \in
                            {"<root>" \o p :
                               p \in PathsFrom(dag, b.root, er.buildable,
                                               NumNodes)}

\* The callable of Buildable 3 raised; Buildable 3 sits in a list held by
\* Buildable 2, an argument of the root.
C18_Witness ==
  /\ built # <<>>
  /\ dag[1][1] = [val |-> Cfg(2), DoNotBuild |-> FALSE]
  /\ dag[2][1] = [val |-> ListOfCfg(3), DoNotBuild |-> FALSE]
  /\ raisers[3] = "ValueError"
  /\ built[1].err # <<>>
  /\ built[1].err[1].type = "BuildError"
  /\ built[1].err[1].path = "<root>.a.a[0]"

\* the root's arguments with the overrides in place of the values they name
WithOverrides(g, kwargs) ==
  [g EXCEPT ![RootNode] =
     [i \in 1..Len(g[RootNode]) |->
        [val |-> IF i \in DOMAIN kwargs THEN kwargs[i]
                 ELSE g[RootNode][i].val,
         DoNotBuild |-> g[RootNode][i].DoNotBuild]]]

\* C19: instantiate(config, **overrides) builds what build would build from
\* config with the overrides in place, and leaves the caller's config as it
\* was; with no overrides it is build(config).
C19_InstantiateLeavesConfig ==
  [][icall' # <<>> =>
       LET kwargs == icall'[1]
           expected == BuildRes(WithOverrides(dag, kwargs), RootNode)
       IN /\ dag' = dag
          /\ built'[1].result = expected.result
          /\ built'[1].objs = expected.objs
          /\ DOMAIN kwargs = {} => built' = <<BuildRes(dag, RootNode)>>]_vars

\* instantiate was called with an override of the root's first argument, a
\* Buildable, by a plain value.
C19_Witness ==
  /\ icall # <<>>
  /\ 1 \in DOMAIN icall[1]
  /\ icall[1][1] = OtherLeaf
  /\ dag[1][1] = [val |-> Cfg(2), DoNotBuild |-> FALSE]
  /\ built[1].objs[built[1].result.ref].args[1] = OtherLeaf

\* C20: add_axis and remove_axis fail with an error for an index other than
\* 0; they return the receiver itself, unchanged, when is_initializing is
\* false; when it is true, a call that returns gives a new boxed value with
\* the receiver's value, shape and tensor_split_dims_mapping and leaves the
\* receiver's own meta as it was; and after add_axis calls only, on a
\* parameter that had no repeat prefix, each of the three repeat_* fields has
\* as many entries as add_axis has added axes.
C20_AxisChangesOnlyRepeatMeta ==
  /\ blast.op # None =>
       /\ blast.index # 0 => ~blast.ok /\ blast.err = "ValueError"
       /\ (blast.index = 0 /\ ~blast.is_initializing) =>
            blast.ok /\ blast.same /\ blast.ret = blast.recv
       /\ (blast.index = 0 /\ blast.is_initializing /\ blast.ok) =>
            /\ ~blast.same
            /\ blast.ret.value = blast.recv.value
            /\ blast.ret.meta.shape = blast.recv.meta.shape
            /\ blast.ret.meta.tensor_split_dims_mapping
                 = blast.recv.meta.tensor_split_dims_mapping
       /\ blast.recv_after = blast.recv
  /\ ~bhist.removed =>
       /\ (blast.index = 0 /\ blast.op # None) => blast.ok
       /\ Len(box.meta.repeat_prefix.items) = bhist.adds
       /\ Len(box.meta.repeat_prefix_split_dims_mapping.items) = bhist.adds
       /\ Len(box.meta.repeat_optimizer_dims_mapping.items) = bhist.adds

\* Two axes were added, and remove_axis has just returned a new boxed value
\* with one axis left.
C20_Witness ==
  /\ blast.op = "remove_axis"
  /\ blast.ok /\ ~blast.same
  /\ Len(blast.recv.meta.repeat_prefix.items) = 2
  /\ Len(blast.ret.meta.repeat_prefix.items) = 1
  /\ blast.recv_after = blast.recv
  /\ box = blast.ret

\* the product of the entries of a shape from position lo to position hi
RECURSIVE ProductOfRange(_, _, _)
ProductOfRange(shape, lo, hi) ==
  IF lo > hi THEN 1 ELSE shape[lo] * ProductOfRange(shape, lo + 1, hi)

\* C21: for a shape of rank >= 1 with positive dims, get_fan_in_fan_out
\* returns (dim0, dim0) for rank 1; for rank >= 2 with the default axes,
\* shape[-2] * R and shape[-1] * R, R being the product of all dims but the
\* last two; and with explicit fan_in_axes and fan_out_axes, the plain
\* products of the dims on those axes.
C21_FanInFanOut ==
  (pcall.fn = "get_fan_in_fan_out" /\ pret # Pending
     /\ Len(pcall.shape) >= 1) =>
    LET shape == pcall.shape
        n == Len(shape)
    IN /\ n = 1 => pret = Returned(<<shape[1], shape[1]>>)
       /\ (n >= 2 /\ pcall.fan_in_axes = <<>> /\ pcall.fan_out_axes = <<>>) =>
            pret = Returned(<<shape[n - 1] * ProductOfRange(shape, 1, n - 2),
                              shape[n] * ProductOfRange(shape, 1, n - 2)>>)
       /\ (n >= 2 /\ pcall.fan_in_axes # <<>> /\ pcall.fan_out_axes # <<>>) =>
            pret = Returned(<<Product(OnAxes(shape, pcall.fan_in_axes[1])),
                              Product(OnAxes(shape, pcall.fan_out_axes[1]))>>)

\* shape (2, 3, 4, 5) with the default axes gave (24, 30).
C21_Witness ==
  /\ pcall.fn = "get_fan_in_fan_out"
  /\ pcall.shape = <<2, 3, 4, 5>>
  /\ pcall.fan_in_axes = <<>> /\ pcall.fan_out_axes = <<>>
  /\ pret.val = <<24, 30>>

\* the initializers whose scale is computed from the fans
FanMethods ==
  {"xavier", "gaussian_sqrt_fanin", "gaussian_sqrt_fanout",
   "gaussian_sqrt_fanavg", "uniform_sqrt_fanavg",
   "truncated_gaussian_sqrt_fanin", "truncated_gaussian_sqrt_fanout"}

\* C22: for a 0-D shape the fan computation yields fan_in = 1 and
\* fan_out = 1, so that a fan-based initializer applied to a scalar variable
\* returns a tensor instead of failing.
C22_ScalarFansAreOne ==
  (/\ pcall.fn = "init_var" /\ pret # Pending
   /\ pcall.shape = <<>>
   /\ pcall.repeat_prefix = <<>>
   /\ pcall.repeat_prefix_split_dims_mapping = <<>>
   /\ pcall.method \in FanMethods) =>
    /\ GetFanInFanOut(pcall.shape, <<>>, <<>>) = Returned(<<1, 1>>)
    /\ pret.ok

\* C23: init_var fails whenever a dim of a non-empty shape is <= 0, whenever
\* the hparams carry a non-empty repeat_prefix or
\* repeat_prefix_split_dims_mapping, and whenever the method name is none of
\* the names the WeightInit factories produce; and no name a factory
\* produces is rejected as unsupported.
C23_InitVarRejects ==
  (pcall.fn = "init_var" /\ pret # Pending) =>
    LET badShape == \E i \in 1..Len(pcall.shape) : pcall.shape[i] <= 0
        repeated == \/ pcall.repeat_prefix # <<>>
                    \/ pcall.repeat_prefix_split_dims_mapping # <<>>
    IN /\ (badShape \/ repeated \/ pcall.method \notin WeightInitMethods) =>
            ~pret.ok
       /\ (~badShape /\ ~repeated /\ pcall.method \in WeightInitMethods) =>
            (pret.ok \/ pret.err # "AssertionError")

\* A constant initializer was asked for a shape with a zero dim, and failed.
C23_Witness ==
  /\ pcall.fn = "init_var" /\ pret # Pending
  /\ pcall.method = "constant"
  /\ pcall.shape = <<1, 0>>
  /\ pcall.repeat_prefix = <<>>
  /\ pcall.repeat_prefix_split_dims_mapping = <<>>
  /\ ~pret.ok

\* an init_var call with the delta-orthogonal method that passed the checks
\* on the shape and the repeat prefix
DeltaOrthogonalCall ==
  /\ pcall.fn = "init_var" /\ pret # Pending
  /\ pcall.method = "delta_orthogonal"
  /\ pcall.repeat_prefix = <<>>
  /\ pcall.repeat_prefix_split_dims_mapping = <<>>
  /\ \A i \in 1..Len(pcall.shape) : pcall.shape[i] > 0

\* C26 as stated: init_var with method 'delta_orthogonal' returns a tensor
\* only for shapes of rank 2, 3, 4 or 5, and fails for every other rank.
C26_DeltaOrthogonalRanks2To5 ==
  DeltaOrthogonalCall => (pret.ok <=> Len(pcall.shape) \in 2..5)

\* C26, amended: init_var with method 'delta_orthogonal' fails, with a
\* ValueError, exactly for the shapes of rank 6 and above; for rank 0 and 1
\* it returns a Gaussian tensor, for rank 2 a scaled orthogonal matrix, and
\* for rank 3, 4 and 5 a delta-orthogonal kernel.
C26_DeltaOrthogonalRanksUpTo5 ==
  DeltaOrthogonalCall =>
    LET rank == Len(pcall.shape)
    IN /\ pret.ok <=> rank <= 5
       /\ ~pret.ok => pret.err = "ValueError"
       /\ rank < 2 => pret.val.dist = "normal"
       /\ rank = 2 => pret.val.dist = "orthogonal"
       /\ rank \in 3..5 => pret.val.dist = "delta_orthogonal"

\* The delta-orthogonal method was applied to a shape of rank 1 and returned
\* a Gaussian tensor.
C26_Witness ==
  /\ DeltaOrthogonalCall
  /\ pcall.shape = <<1>>
  /\ pret.ok /\ pret.val.dist = "normal"

ThetaCall == pcall.fn \in {"theta.name", "theta[name]"} /\ pret # Pending

\* C24 as stated: reading a name with no trainable variable fails; reading
\* an existing trainable variable returns the stored value, cast to the
\* fprop dtype when it is floating-point and of another dtype, except that a
\* tagged variable is returned un-cast whatever the fprop dtype; dot and
\* bracket access give the same result for every name.
C24_ThetaReadsCast ==
  ThetaCall =>
    /\ ~pcall.has_variable => ~pret.ok
    /\ pcall.has_variable =>
         /\ pret.ok
         /\ pret.val.obj = "variable"
         /\ pret.val.dtype =
              IF pcall.disallow_bfloat16_conversion THEN pcall.dtype
              ELSE IF Floating(pcall.dtype) /\ pcall.dtype # pcall.fprop_dtype
              THEN pcall.fprop_dtype ELSE pcall.dtype
    /\ ThetaGetAttr(pcall) = ThetaGetItem(pcall)

\* C24, amended: for a name that is not an attribute of the Theta object
\* itself, dot and bracket access give the same result: an error when the
\* layer has no trainable variable of that name, else the stored value, cast
\* to the fprop dtype when it is floating-point and of another dtype, except
\* that a tagged variable is returned un-cast when the fprop dtype is
\* bfloat16.  theta[name] does so for every name.
C24_ThetaReadsCastUnlessBfloat16Tagged ==
  (ThetaCall /\ (pcall.fn = "theta[name]" \/ pcall.name \notin ThetaOwnAttrs)) =>
    /\ ~pcall.has_variable => ~pret.ok /\ pret.err = "ValueError"
    /\ pcall.has_variable =>
         /\ pret.ok
         /\ pret.val.obj = "variable"
         /\ pret.val.dtype =
              IF /\ pcall.disallow_bfloat16_conversion
                 /\ pcall.fprop_dtype = "bfloat16"
              THEN pcall.dtype
              ELSE IF Floating(pcall.dtype) /\ pcall.dtype # pcall.fprop_dtype
              THEN pcall.fprop_dtype ELSE pcall.dtype
    /\ pcall.name \notin ThetaOwnAttrs =>
         ThetaGetAttr(pcall) = ThetaGetItem(pcall)

\* A tagged float32 variable was read through theta.w in a layer whose
\* fprop dtype is float16, and came back as float16.
C24_Witness ==
  /\ ThetaCall
  /\ pcall.fn = "theta.name" /\ pcall.name = "w"
  /\ pcall.has_variable /\ pcall.dtype = "float32"
  /\ pcall.disallow_bfloat16_conversion
  /\ pcall.fprop_dtype = "float16"
  /\ pret.ok /\ pret.val.dtype = "float16"

\* the length of a repeat prefix, None counting as empty
PrefixLen(c) == IF c.repeat_prefix = <<>> THEN 0 ELSE Len(c.repeat_prefix[1])

\* the mapping entries the spec is derived from
EntriesUsed(c) ==
  (IF c.tensor_split_dims_mapping = <<>> THEN {}
   ELSE {c.tensor_split_dims_mapping[1][k] :
           k \in 1..Len(c.tensor_split_dims_mapping[1])})
  \cup
  (IF c.repeat_prefix = <<>> \/ c.repeat_prefix_split_dims_mapping = <<>>
   THEN {}
   ELSE {c.repeat_prefix_split_dims_mapping[1][k] :
           k \in 1..Len(c.repeat_prefix_split_dims_mapping[1])})

\* what a mapping entry becomes in the partition spec
SpecEntry(en) ==
  IF en.kind = "none" \/ en.i < 0 THEN Unsharded ELSE DeviceAxisNames[en.i + 1]

FieldsOf(config) == {n \in OwnFields : config.cls[n] # "absent"}

CopyCalled == pcall.fn = "copy_fields_from" /\ pret.err # "pending"

\* a field of the source that is missing in self and not listed
SourceOnlyUnlisted(c) ==
  \E n \in FieldsOf(c.source) \ FieldsOf(c.self) :
    n \notin c.missing_fields_in_self

\* a field of self that is missing in the source and not listed
SelfOnlyUnlisted(c) ==
  \E n \in FieldsOf(c.self) \ FieldsOf(c.source) :
    n \notin c.missing_fields_in_self

\* a shared field the source leaves to a default factory that is not self's
ConflictingFactory(c) ==
  \E n \in FieldsOf(c.self) \cap FieldsOf(c.source) :
    /\ c.source.args[n] = Unset
    /\ IsFactory(c.source.cls[n])
    /\ c.source.cls[n] # c.self.cls[n]

\* a shared field the source leaves unset and has no default of any kind for
RequiredUnset(c) ==
  \E n \in FieldsOf(c.self) \cap FieldsOf(c.source) :
    c.source.args[n] = Unset /\ c.source.cls[n] = "required"

\* what the source supplies for field n: its explicit value, its default,
\* or (unset) the value of the default factory
SourceValue(c, n) ==
  IF c.source.args[n] # Unset THEN c.source.args[n]
  ELSE IF c.source.cls[n] = "default" THEN c.source.dflt
  ELSE Unset

CopiedAsStated(c) ==
  /\ \A n \in FieldsOf(c.self) \cap FieldsOf(c.source) :
       pret.val.self.args[n] = SourceValue(c, n)
  /\ pret.val.source = c.source
  /\ pret.val.self.args["name"] = c.self.args["name"]
  /\ pret.val.self.args["parent"] = c.self.args["parent"]

\* C27 as stated: copy_fields_from fails when a field other than name and
\* parent exists on one side only and is not listed in
\* missing_fields_in_self, or when a source value comes from a default
\* factory different from self's; otherwise it sets every shared field of
\* self to the source's explicit or default value, leaves the source alone
\* and copies neither name nor parent.
C27_CopyFailsOnEitherSideMissing ==
  CopyCalled =>
    IF \/ SourceOnlyUnlisted(pcall) \/ SelfOnlyUnlisted(pcall)
       \/ ConflictingFactory(pcall)
    THEN ~pret.ok
    ELSE pret.ok /\ CopiedAsStated(pcall)

\* C27 amended: copy_fields_from fails with ValueError exactly when a field
\* of the source (other than name and parent) is missing in self and not
\* listed, or a shared field that the source leaves unset has a default
\* factory different from self's or no default at all; a field that only
\* self has is skipped and keeps its value.  When it succeeds every shared
\* field has the source's explicit value or default (unset, for the same
\* default factory); the source, name and parent are never changed.
C27_CopyFailsOnSourceSideMissing ==
  CopyCalled =>
    /\ ~pret.ok <=> \/ SourceOnlyUnlisted(pcall)
                    \/ ConflictingFactory(pcall)
                    \/ RequiredUnset(pcall)
    /\ ~pret.ok => pret.err = "ValueError"
    /\ pret.ok => CopiedAsStated(pcall)
    /\ \A n \in FieldsOf(pcall.self) \ FieldsOf(pcall.source) :
         pret.val.self.args[n] = pcall.self.args[n]
    /\ pret.val.source = pcall.source
    /\ pret.val.self.args["name"] = pcall.self.args["name"]
    /\ pret.val.self.args["parent"] = pcall.self.args["parent"]
    /\ pret.val.self.cls = pcall.self.cls

\* A copy that succeeds although self has a field the source lacks: the
\* shared field takes the source's explicit value, the other keeps its own.
C27_Witness ==
  /\ CopyCalled /\ pret.ok
  /\ pcall.missing_fields_in_self = {}
  /\ pcall.self.cls["f"] = "default" /\ pcall.self.cls["g"] = "default"
  /\ pcall.source.cls["f"] = "default" /\ pcall.source.cls["g"] = "absent"
  /\ pcall.source.args["f"] = "source_value"
  /\ pcall.self.args["g"] = "self_value"
  /\ pret.val.self.args["f"] = "source_value"
  /\ pret.val.self.args["g"] = "self_value"
  /\ pret.val.self.args["name"] = "dst"

\* C28: while initializing, add_axis applied n times to a parameter with no
\* repeat prefix and then remove_axis applied n times with the same
\* parameters in reverse order succeeds at every step and ends with an empty
\* repeat prefix and empty prefix split-dims and optimizer-dims mappings;
\* and add_axis applied to the result of a remove_axis that left a non-empty
\* prefix succeeds.
C28_AddThenRemoveSucceeds ==
  /\ (/\ blast.op = "remove_axis"
      /\ blast.index = 0 /\ blast.is_initializing
      /\ bhist.paired) =>
       /\ blast.ok
       /\ bhist.stack = <<>> =>
            /\ box.meta.repeat_prefix.items = <<>>
            /\ box.meta.repeat_prefix_split_dims_mapping.items = <<>>
            /\ box.meta.repeat_optimizer_dims_mapping.items = <<>>
  /\ (/\ blast.op = "add_axis"
      /\ blast.index = 0 /\ blast.is_initializing
      /\ bhist.recv_from_remove
      /\ Truthy(blast.recv.meta.repeat_prefix)) =>
       blast.ok

\* C29: a frame returned by new_context() starts with an empty summary
\* dictionary and an empty shared-layer cache and with the settings it was to
\* inherit, and creating it does not change the stack; what is added or
\* registered through one frame is never visible through another; and a
\* frame's settings change only through its own hparams object, never
\* through the object that was passed in or through a frame that inherited
\* from it.
C29_NewContextIsFresh ==
  /\ jlast.op = "new_context" =>
       LET f == jframes[jlast.frame]
       IN /\ jdicts[f.self.summary_dict] = {}
          /\ jdicts[f.self.shared_layers] = {}
          /\ jstack = jlast.stack
          /\ Settings(jhparams, jdicts, f.self.hparams) = jlast.inherited
  /\ \A f \in 1..Len(jframes) :
       /\ jdicts[jframes[f].self.summary_dict] = jframes[f].added
       /\ jdicts[jframes[f].self.shared_layers] = jframes[f].registered
       /\ Settings(jhparams, jdicts, jframes[f].self.hparams) = jframes[f].own

\* A second frame was created inside the first with the hparams argument
\* left out, after a summary was added through the first; then do_eval was
\* changed through the second frame's hparams.
C29_Witness ==
  /\ Len(jframes) = 2
  /\ jstack = <<1>>
  /\ jframes[1].added # {}
  /\ jframes[2].added = {}
  /\ jhparams[jframes[1].self.hparams].do_eval = None
  /\ jhparams[jframes[1].self.hparams].summary_verbosity = 0
  /\ jhparams[jframes[2].self.hparams].do_eval = "True"
  /\ jhparams[jframes[2].self.hparams].summary_verbosity = 0
  /\ jframes[2].own.mesh_axes_transpose = <<{}>>
  /\ jframes[2].self.hparams # jframes[1].self.hparams

\* the config a child called name is built from: the template's values with
\* the parent's fields copied down and the name set
BuiltFrom(name) ==
  [CopyBaseParamsToFdlConfig(parent, cfg) EXCEPT !["C"].name = name]

\* every child the last call created is in _private_children under its name
LastRecorded ==
  /\ (last.op = "create_child" /\ last.ok) =>
       /\ last.layer # 0
       /\ children[last.name] = last.layer
  /\ last.op = "create_children" =>
       /\ last.ok => Len(last.made) = last.n
       /\ \A i \in 1..Len(last.made) :
            /\ last.made[i] # 0
            /\ children[NumberedName(last.name, i - 1)] = last.made[i]

\* every layer built without sharing has the template's values
ChildrenFromTemplate ==
  \A k \in 1..Len(layers) :
    layers[k].wrapper = None => layers[k].hp = BuiltFrom(layers[k].name)

\* C30: create_child and create_children change neither the config the
\* caller passed nor the parent layer's own fields, so that every child is
\* built from the template's original values; and every child they created
\* is recorded in _private_children under its name, name_0, name_1, ... in
\* list order for create_children.
C30_CreateChildLeavesTemplate ==
  [][/\ cfg' = cfg
     /\ parent' = parent
     /\ LastRecorded'
     /\ ChildrenFromTemplate']_vars

\* create_children has made two children from the one template; they are
\* recorded as a_0 and a_1 and the template still has its own name.
C30_Witness ==
  /\ last.op = "create_children" /\ last.ok /\ last.n = 2
  /\ last.name = "a"
  /\ children["a_0"] = 1 /\ children["a_1"] = 2
  /\ layers[1].name = "a_0" /\ layers[2].name = "a_1"
  /\ layers[2].hp["C"].dtype = "bfloat16"
  /\ cfg["C"].name = "template"
  /\ cfg["C"].dtype = "float32"
====
